---- MODULE Spec2Model ----
(***************************************************************************)
(* A model of etnz/apt-repo-builder: the deb package codec (Package,       *)
(* Digest, WriteTo, NewPackage), the flat repository (Append,              *)
(* AddOverwrite, WriteToDir, NewRepositoryFromDir), the manifest build     *)
(* (Compile, Apply) and the version helpers (BumpVersion).                 *)
(*                                                                         *)
(* Go strings are sequences of one-character strings, so that splitting,   *)
(* trimming, joining and sorting are computed as the code computes them.   *)
(* sha256 is a collision-free stand-in (the digest is the absorbed byte    *)
(* stream itself); gzip, tar and ar are containers that give back the      *)
(* entries that were put in.                                               *)
(***************************************************************************)
EXTENDS Integers, Sequences, FiniteSets, TLC

VARIABLES
    Packages,   \* Repository.Packages: the ordered slice of *Package
    ret,        \* the last call on the repository: operation, argument, results
    held,       \* a Package held in memory by a caller of the deb package
    deb,        \* the last .deb that was produced: its members and its origin
    parsed,     \* the Package the last NewPackage returned
    call,       \* the last call on a package: operation and arguments
    sum,        \* the last result of Digest and the package it was computed on
    oldVer,     \* a version string handed to BumpVersion
    newVer,     \* what BumpVersion returned for it
    manifest,   \* the package definitions of a manifest repository
    dir,        \* the directory the manifest repository is compiled into
    run,        \* the Compile calls so far: how many, and the last result
    world,      \* what the harvester finds outside: HTTP responses, local files
    cached,     \* the harvester's cache: URL to CachedAsset
    master,     \* a PackageIndex: key to *Package
    outcome,    \* the last call on the apt package: operation and results
    defines,    \* the defines handed to the template engine, key to template
    engine,     \* the last template engine built, or the error of building it
    hub,        \* the release host: its releases, their assets, the requests it got
    upload,     \* the last asset upload: its arguments and its result
    std,        \* a StandardRepository: its ArchiveInfo, GPGKey and Parts
    tarball     \* what StandardRepository.WriteTo wrote last, and its error

repoVars == <<Packages, ret>>
pkgVars == <<held, deb, parsed, call, sum>>
bumpVars == <<oldVer, newVer>>
buildVars == <<manifest, dir, run>>
aptVars == <<world, cached, master, outcome>>
tmplVars == <<defines, engine>>
hubVars == <<hub, upload>>
stdVars == <<std, tarball>>
vars == <<Packages, ret, held, deb, parsed, call, sum, oldVer, newVer, manifest, dir, run,
          world, cached, master, outcome, defines, engine, hub, upload, std, tarball>>

-----------------------------------------------------------------------------
(* Bounds of the model *)

\* number of distinct version strings the package pool is built over
NumVersions == 2

-----------------------------------------------------------------------------
(* Go strings *)

\* the characters that occur in the model, in ASCII (byte) order
AsciiOrder ==
    << "NUL", "\t", "\n", " ", "+", ",", "-", ".", "/",
       "0", "1", "2", "3", "4", "5", "6", "7", "8", "9", ":",
       "A", "B", "C", "D", "E", "F", "G", "H", "I", "J", "K", "L", "M",
       "N", "O", "P", "Q", "R", "S", "T", "U", "V", "W", "X", "Y", "Z",
       "_",
       "a", "b", "c", "d", "e", "f", "g", "h", "i", "j", "k", "l", "m",
       "n", "o", "p", "q", "r", "s", "t", "u", "v", "w", "x", "y", "z",
       "~" >>

Ord(c) == CHOOSE i \in 1..Len(AsciiOrder) : AsciiOrder[i] = c

Digits == <<"0", "1", "2", "3", "4", "5", "6", "7", "8", "9">>

IsDigit(c) == \E i \in 1..10 : Digits[i] = c

DigitVal(c) == (CHOOSE i \in 1..10 : Digits[i] = c) - 1

\* Go's < on strings: bytewise lexicographic
RECURSIVE StrLess(_, _)
StrLess(a, b) ==
    IF b = <<>> THEN FALSE
    ELSE IF a = <<>> THEN TRUE
    ELSE IF Head(a) = Head(b) THEN StrLess(Tail(a), Tail(b))
    ELSE Ord(Head(a)) < Ord(Head(b))

\* strconv.Itoa / fmt "%d" of a non-negative integer
RECURSIVE Itoa(_)
Itoa(n) == IF n < 10 THEN <<Digits[n + 1]>> ELSE Itoa(n \div 10) \o <<Digits[(n % 10) + 1]>>

HasPrefix(s, p) == Len(s) >= Len(p) /\ SubSeq(s, 1, Len(p)) = p

HasSuffix(s, p) == Len(s) >= Len(p) /\ SubSeq(s, Len(s) - Len(p) + 1, Len(s)) = p

TrimPrefix(s, p) == IF HasPrefix(s, p) THEN SubSeq(s, Len(p) + 1, Len(s)) ELSE s

IsSpace(c) == c \in {" ", "\t", "\n"}

RECURSIVE TrimLeft(_)
TrimLeft(s) == IF s # <<>> /\ IsSpace(Head(s)) THEN TrimLeft(Tail(s)) ELSE s

RECURSIVE TrimRight(_)
TrimRight(s) ==
    IF s # <<>> /\ IsSpace(s[Len(s)]) THEN TrimRight(SubSeq(s, 1, Len(s) - 1)) ELSE s

TrimSpace(s) == TrimRight(TrimLeft(s))

\* strings.Index for a one-character separator; 0 when absent
IndexOf(s, c) ==
    IF \E i \in 1..Len(s) : s[i] = c
    THEN CHOOSE i \in 1..Len(s) : s[i] = c /\ \A j \in 1..(i - 1) : s[j] # c
    ELSE 0

\* strings.LastIndex for a one-character separator; 0 when absent
LastIndexOf(s, c) ==
    IF \E i \in 1..Len(s) : s[i] = c
    THEN CHOOSE i \in 1..Len(s) : s[i] = c /\ \A j \in (i + 1)..Len(s) : s[j] # c
    ELSE 0

Contains(s, c) == IndexOf(s, c) # 0

\* strings.Split(s, c) for a one-character separator
RECURSIVE Split(_, _)
Split(s, c) ==
    LET i == IndexOf(s, c)
    IN  IF i = 0 THEN <<s>>
        ELSE <<SubSeq(s, 1, i - 1)>> \o Split(SubSeq(s, i + 1, Len(s)), c)

\* strings.Join
RECURSIVE Join(_, _)
Join(parts, sep) ==
    IF parts = <<>> THEN <<>>
    ELSE IF Len(parts) = 1 THEN parts[1]
    ELSE parts[1] \o sep \o Join(Tail(parts), sep)

\* sort.Strings over the keys of a map
RECURSIVE SortStrings(_)
SortStrings(S) ==
    IF S = {} THEN <<>>
    ELSE LET m == CHOOSE x \in S : \A y \in S \ {x} : StrLess(x, y)
         IN  <<m>> \o SortStrings(S \ {m})

\* concatenation of a sequence of strings
RECURSIVE Concat(_)
Concat(ss) == IF ss = <<>> THEN <<>> ELSE Head(ss) \o Concat(Tail(ss))

\* a Go map with string keys
EmptyMap == [k \in {} |-> <<>>]

\* F applied to the value of v, computed once
With(v, F(_)) == CHOOSE r \in {F(x) : x \in {v}} : TRUE

MapPut(m, k, v) == [x \in (DOMAIN m) \cup {k} |-> IF x = k THEN v ELSE m[x]]

-----------------------------------------------------------------------------
(* deb/constants.go *)

FieldPackage == <<"P", "a", "c", "k", "a", "g", "e">>
FieldVersion == <<"V", "e", "r", "s", "i", "o", "n">>
FieldArchitecture == <<"A", "r", "c", "h", "i", "t", "e", "c", "t", "u", "r", "e">>
FieldMaintainer == <<"M", "a", "i", "n", "t", "a", "i", "n", "e", "r">>
FieldDescription == <<"D", "e", "s", "c", "r", "i", "p", "t", "i", "o", "n">>
FieldSection == <<"S", "e", "c", "t", "i", "o", "n">>
FieldPriority == <<"P", "r", "i", "o", "r", "i", "t", "y">>
FieldHomepage == <<"H", "o", "m", "e", "p", "a", "g", "e">>
FieldEssential == <<"E", "s", "s", "e", "n", "t", "i", "a", "l">>
FieldDepends == <<"D", "e", "p", "e", "n", "d", "s">>
FieldPreDepends == <<"P", "r", "e", "-", "D", "e", "p", "e", "n", "d", "s">>
FieldRecommends == <<"R", "e", "c", "o", "m", "m", "e", "n", "d", "s">>
FieldSuggests == <<"S", "u", "g", "g", "e", "s", "t", "s">>
FieldEnhances == <<"E", "n", "h", "a", "n", "c", "e", "s">>
FieldConflicts == <<"C", "o", "n", "f", "l", "i", "c", "t", "s">>
FieldBreaks == <<"B", "r", "e", "a", "k", "s">>
FieldReplaces == <<"R", "e", "p", "l", "a", "c", "e", "s">>
FieldProvides == <<"P", "r", "o", "v", "i", "d", "e", "s">>
FieldBuiltUsing == <<"B", "u", "i", "l", "t", "-", "U", "s", "i", "n", "g">>
FieldSource == <<"S", "o", "u", "r", "c", "e">>
FieldInstalledSize == <<"I", "n", "s", "t", "a", "l", "l", "e", "d", "-", "S", "i", "z", "e">>

FileControl == <<"c", "o", "n", "t", "r", "o", "l">>
FileMd5sums == <<"m", "d", "5", "s", "u", "m", "s">>
FileConffiles == <<"c", "o", "n", "f", "f", "i", "l", "e", "s">>
FilePreinst == <<"p", "r", "e", "i", "n", "s", "t">>
FilePostinst == <<"p", "o", "s", "t", "i", "n", "s", "t">>
FilePrerm == <<"p", "r", "e", "r", "m">>
FilePostrm == <<"p", "o", "s", "t", "r", "m">>
FileConfig == <<"c", "o", "n", "f", "i", "g">>

\* the relationship fields, in the order Digest and generateControlFile use
ListFields ==
    << "Depends", "PreDepends", "Recommends", "Suggests", "Enhances",
       "Conflicts", "Breaks", "Replaces", "Provides" >>

-----------------------------------------------------------------------------
(* deb.Package *)

\* the zero Metadata, with an allocated (empty) ExtraFields map
EmptyMetadata ==
    [ Package |-> <<>>, Version |-> <<>>, Architecture |-> <<>>,
      Maintainer |-> <<>>, Description |-> <<>>, Section |-> <<>>,
      Priority |-> <<>>, Homepage |-> <<>>, Essential |-> FALSE,
      Depends |-> <<>>, PreDepends |-> <<>>, Recommends |-> <<>>,
      Suggests |-> <<>>, Enhances |-> <<>>, Conflicts |-> <<>>,
      Breaks |-> <<>>, Replaces |-> <<>>, Provides |-> <<>>,
      BuiltUsing |-> <<>>, Source |-> <<>>, ExtraFields |-> EmptyMap ]

EmptyScripts ==
    [ PreInst |-> <<>>, PostInst |-> <<>>, PreRm |-> <<>>, PostRm |-> <<>>,
      Config |-> <<>> ]

\* a Package object; ptr is the identity of the Go pointer that holds it
EmptyPackage ==
    [ ptr |-> <<0, "new">>, Metadata |-> EmptyMetadata, Scripts |-> EmptyScripts,
      Files |-> <<>>, ExtraControlFiles |-> EmptyMap ]

\* a deb.File
MkFile(dest, mode, body, isConf, modTime) ==
    [ DestPath |-> dest, Mode |-> mode, Body |-> body, IsConf |-> isConf,
      ModTime |-> modTime ]

\* the nil *Package
Nil == [EmptyPackage EXCEPT !.ptr = <<0, "nil">>]

\* no .deb produced, no call made, no digest computed yet
NoDeb ==
    [tool |-> "none", src |-> Nil, now |-> 0, keyOrder |-> <<>>, scriptOrder |-> <<>>,
     size |-> 0, members |-> <<>>]
NoCall == [op |-> "none", key |-> <<>>, value |-> <<>>]
NoSum == [p |-> Nil, d |-> <<>>]
NoRet == [op |-> "none", arg |-> Nil, existing |-> Nil, err |-> FALSE]

\* no directory on disk, no Compile made yet
NoDir == [exists |-> FALSE, files |-> <<>>]
NoRun == [n |-> 0, err |-> FALSE, gpgKey |-> <<>>]

\* the variables of the parts of the program that a run does not use
IdleRepo == Packages = <<>> /\ ret = NoRet
IdlePkg == held = Nil /\ deb = NoDeb /\ parsed = Nil /\ call = NoCall /\ sum = NoSum
IdleBump == oldVer = <<>> /\ newVer = <<>>
IdleBuild == manifest = <<>> /\ dir = NoDir /\ run = NoRun
IdleApt == world = <<>> /\ cached = <<>> /\ master = <<>> /\ outcome = <<>>
IdleTmpl == defines = <<>> /\ engine = <<>>
IdleHub == hub = <<>> /\ upload = <<>>
IdleStd == std = <<>> /\ tarball = <<>>

\* splitList: split on commas and trim each element; nil for the empty string
splitList(s) ==
    IF s = <<>> THEN <<>>
    ELSE LET parts == Split(s, ",")
         IN  [i \in 1..Len(parts) |-> TrimSpace(parts[i])]

SetMeta(p, field, value) == [p EXCEPT !.Metadata[field] = value]

\* a Set that stores the Installed-Size it is given among the extra fields
SetInstalledSizeStored(p, value) ==
    SetMeta(p, "ExtraFields", MapPut(p.Metadata.ExtraFields, FieldInstalledSize, value))

\* what Set does for the Installed-Size key: nothing
SetInstalledSize(p, value) == p

\* Package.Set
Set(p, key, value) ==
    CASE key = FieldPackage -> SetMeta(p, "Package", value)
      [] key = FieldVersion -> SetMeta(p, "Version", value)
      [] key = FieldArchitecture -> SetMeta(p, "Architecture", value)
      [] key = FieldMaintainer -> SetMeta(p, "Maintainer", value)
      [] key = FieldDescription -> SetMeta(p, "Description", value)
      [] key = FieldSection -> SetMeta(p, "Section", value)
      [] key = FieldPriority -> SetMeta(p, "Priority", value)
      [] key = FieldHomepage -> SetMeta(p, "Homepage", value)
      [] key = FieldEssential -> SetMeta(p, "Essential", value = <<"y", "e", "s">>)
      [] key = FieldDepends -> SetMeta(p, "Depends", splitList(value))
      [] key = FieldPreDepends -> SetMeta(p, "PreDepends", splitList(value))
      [] key = FieldRecommends -> SetMeta(p, "Recommends", splitList(value))
      [] key = FieldSuggests -> SetMeta(p, "Suggests", splitList(value))
      [] key = FieldEnhances -> SetMeta(p, "Enhances", splitList(value))
      [] key = FieldConflicts -> SetMeta(p, "Conflicts", splitList(value))
      [] key = FieldBreaks -> SetMeta(p, "Breaks", splitList(value))
      [] key = FieldReplaces -> SetMeta(p, "Replaces", splitList(value))
      [] key = FieldProvides -> SetMeta(p, "Provides", splitList(value))
      [] key = FieldBuiltUsing -> SetMeta(p, "BuiltUsing", value)
      [] key = FieldSource -> SetMeta(p, "Source", value)
      [] key = FieldInstalledSize -> SetInstalledSize(p, value)
      [] OTHER -> SetMeta(p, "ExtraFields", MapPut(p.Metadata.ExtraFields, key, value))

-----------------------------------------------------------------------------
(* Package.Digest and Package.Equal *)

\* crypto/sha256, collision-free: the digest stands for the bytes absorbed
Sha256(bytes) == [sha256 |-> bytes]

\* the write closure of Digest: fmt.Fprintf(h, "%d:%s\x00", len(s), s)
write(s) == Itoa(Len(s)) \o <<":">> \o s \o <<"NUL">>

\* fmt.Sprintf("%v", b) of a bool
BoolStr(b) == IF b THEN <<"t", "r", "u", "e">> ELSE <<"f", "a", "l", "s", "e">>

RECURSIVE SumBodies(_)
SumBodies(files) ==
    IF files = <<>> THEN 0 ELSE Len(Head(files).Body) + SumBodies(Tail(files))

\* Installed-Size in kilobytes, rounded up
Kbytes(installedBytes) == (installedBytes + 1023) \div 1024

\* one step of the insertion sort sort.Slice runs on slices of at most 12
\* elements: x moves left while it is strictly less than its predecessor
RECURSIVE InsertFile(_, _)
InsertFile(sorted, x) ==
    IF sorted = <<>> THEN <<x>>
    ELSE IF StrLess(x.DestPath, sorted[Len(sorted)].DestPath)
         THEN InsertFile(SubSeq(sorted, 1, Len(sorted) - 1), x) \o <<sorted[Len(sorted)]>>
         ELSE sorted \o <<x>>

\* sort.Slice(files, func(i, j) { return files[i].DestPath < files[j].DestPath })
RECURSIVE SortFiles(_)
SortFiles(files) ==
    IF files = <<>> THEN <<>>
    ELSE InsertFile(SortFiles(SubSeq(files, 1, Len(files) - 1)), files[Len(files)])

\* the records of one relationship list: its length, then each element
RECURSIVE WriteAll(_)
WriteAll(ss) == IF ss = <<>> THEN <<>> ELSE write(Head(ss)) \o WriteAll(Tail(ss))

DigestList(list) == write(Itoa(Len(list))) \o WriteAll(list)

\* the records of a map: for each key in sorted order, the key then the value
DigestMap(m) ==
    LET keys == SortStrings(DOMAIN m)
    IN  Concat([i \in 1..Len(keys) |-> write(keys[i]) \o write(m[keys[i]])])

\* the records of the payload: DestPath, Mode, IsConf, Body of each sorted file
DigestFiles(files) ==
    LET fs == SortFiles(files)
    IN  Concat([i \in 1..Len(fs) |->
                   write(fs[i].DestPath) \o write(Itoa(fs[i].Mode))
                   \o write(BoolStr(fs[i].IsConf)) \o write(fs[i].Body)])

\* the byte stream Digest feeds to the hash
DigestStream(p0) ==
    LET p == Set(p0, FieldInstalledSize, Itoa(Kbytes(SumBodies(p0.Files))))
        m == p.Metadata
    IN  write(m.Package) \o write(m.Version) \o write(m.Architecture)
        \o write(m.Maintainer) \o write(m.Description) \o write(m.Section)
        \o write(m.Priority) \o write(m.Homepage) \o write(BoolStr(m.Essential))
        \o write(m.BuiltUsing) \o write(m.Source)
        \o Concat([i \in 1..Len(ListFields) |-> DigestList(m[ListFields[i]])])
        \o DigestMap(m.ExtraFields)
        \o write(p.Scripts.PreInst) \o write(p.Scripts.PostInst)
        \o write(p.Scripts.PreRm) \o write(p.Scripts.PostRm)
        \o write(p.Scripts.Config)
        \o DigestMap(p.ExtraControlFiles)
        \o DigestFiles(p.Files)

\* Package.Digest
Digest(p) == Sha256(DigestStream(p))

\* Equal comparing the pointers instead of the digests
EqualByPointer(p, other) == p.ptr = other.ptr

\* Package.Equal
Equal(p, other) ==
    IF p = Nil /\ other = Nil THEN TRUE
    ELSE IF p = Nil \/ other = Nil THEN FALSE
    ELSE Digest(p) = Digest(other)

-----------------------------------------------------------------------------
(* deb.Repository *)

SameTriple(p, q) ==
    /\ p.Metadata.Package = q.Metadata.Package
    /\ p.Metadata.Version = q.Metadata.Version
    /\ p.Metadata.Architecture = q.Metadata.Architecture

\* the index of the first entry with the triple, 0 when there is none
GetIndex(pkgs, name, version, arch) ==
    LET hits == {i \in 1..Len(pkgs) :
                    /\ pkgs[i].Metadata.Package = name
                    /\ pkgs[i].Metadata.Version = version
                    /\ pkgs[i].Metadata.Architecture = arch}
    IN  IF hits = {} THEN 0 ELSE CHOOSE i \in hits : \A j \in hits : i <= j

\* Repository.Get
Get(pkgs, name, version, arch) ==
    LET i == GetIndex(pkgs, name, version, arch)
    IN  IF i = 0 THEN Nil ELSE pkgs[i]

\* Append without the lookup of an existing entry
AppendNoLookup(pkgs, pkg) ==
    [Packages |-> pkgs \o <<pkg>>, existing |-> Nil, err |-> FALSE]

\* Repository.Append: the new slice, the returned package and whether an
\* error is returned
RepositoryAppend(pkgs, pkg) ==
    LET existing == Get(pkgs, pkg.Metadata.Package, pkg.Metadata.Version,
                        pkg.Metadata.Architecture)
    IN  IF existing # Nil
        THEN IF Equal(existing, pkg)
             THEN [Packages |-> pkgs, existing |-> existing, err |-> FALSE]
             ELSE [Packages |-> pkgs, existing |-> existing, err |-> TRUE]
        ELSE [Packages |-> pkgs \o <<pkg>>, existing |-> Nil, err |-> FALSE]

\* Repository.AddOverwrite. The loop variable of the range statement is named
\* pkg too and shadows the parameter, so the assignment in the loop stores
\* the entry that is already there.
AddOverwrite(pkgs, pkg) ==
    LET i == GetIndex(pkgs, pkg.Metadata.Package, pkg.Metadata.Version,
                      pkg.Metadata.Architecture)
    IN  IF i # 0
        THEN LET loopPkg == pkgs[i] IN [pkgs EXCEPT ![i] = loopPkg]
        ELSE pkgs \o <<pkg>>

-----------------------------------------------------------------------------
(* The packages handed to the repository *)

X == <<"x">>

PoolName == <<"h", "i">>

PoolArch == <<"a", "l", "l">>

AllX == [PreInst |-> X, PostInst |-> X, PreRm |-> X, PostRm |-> X, Config |-> X]

\* the packages of one version: two objects with the same content, one whose
\* postinst differs, one with a user-defined field and one with an auxiliary
\* control file
PoolOf(v) ==
    LET base == [EmptyPackage EXCEPT
                    !.Metadata.Package = PoolName,
                    !.Metadata.Version = Itoa(v),
                    !.Metadata.Architecture = PoolArch,
                    !.Scripts = AllX]
    IN  { [base EXCEPT !.ptr = <<v, "a">>],
          [base EXCEPT !.ptr = <<v, "b">>],
          [base EXCEPT !.ptr = <<v, "script">>, !.Scripts.PostInst = <<"y">>],
          [base EXCEPT !.ptr = <<v, "field">>,
                       !.Metadata.ExtraFields = MapPut(EmptyMap, X, X)],
          [base EXCEPT !.ptr = <<v, "ctrl">>,
                       !.ExtraControlFiles = MapPut(EmptyMap, X, X)] }

Pool == UNION {PoolOf(v) : v \in 1..NumVersions}

-----------------------------------------------------------------------------
(* The repository as a state machine *)

Init ==
    /\ Packages = <<>>
    /\ ret = NoRet
    /\ IdlePkg /\ IdleBump /\ IdleBuild /\ IdleApt /\ IdleTmpl /\ IdleHub /\ IdleStd

DoAppend ==
    \E p \in Pool :
        LET r == RepositoryAppend(Packages, p)
        IN  /\ Packages' = r.Packages
            /\ ret' = [op |-> "Append", arg |-> p, existing |-> r.existing,
                       err |-> r.err]
            /\ UNCHANGED <<pkgVars, bumpVars, buildVars, aptVars, tmplVars, hubVars, stdVars>>

DoAddOverwrite ==
    \E p \in Pool :
        /\ Packages' = AddOverwrite(Packages, p)
        /\ ret' = [op |-> "AddOverwrite", arg |-> p, existing |-> Nil,
                   err |-> FALSE]
        /\ UNCHANGED <<pkgVars, bumpVars, buildVars, aptVars, tmplVars, hubVars, stdVars>>

Next == DoAppend \/ DoAddOverwrite

Spec == Init /\ [][Next]_vars

-----------------------------------------------------------------------------
(* Content of a package, as the digest is documented to bind it *)

PayloadEntries(p) ==
    { <<p.Files[i].DestPath, p.Files[i].Mode, p.Files[i].IsConf, p.Files[i].Body>> :
        i \in 1..Len(p.Files) }

\* same metadata, relationship lists, extra fields, scripts, extra control
\* files and set of payload entries
SameContent(p, q) ==
    /\ p.Metadata = q.Metadata
    /\ p.Scripts = q.Scripts
    /\ p.ExtraControlFiles = q.ExtraControlFiles
    /\ PayloadEntries(p) = PayloadEntries(q)

-----------------------------------------------------------------------------
(* Claims about the repository *)

\* C1: after any sequence of Append and AddOverwrite calls, including calls
\* that return an error, no two entries of Repository.Packages have the same
\* (Package, Version, Architecture) triple.
C1_UniqueTriples ==
    \A i, j \in 1..Len(Packages) :
        i # j => ~SameTriple(Packages[i], Packages[j])

\* C1 witness: the repository holds two entries and the last Append returned
\* an error.
C1_Witness == Len(Packages) >= 2 /\ ret.op = "Append" /\ ret.err

\* C2: Append of a package whose triple is present with an equal digest (the
\* stored object itself or a distinct object) returns the existing record
\* and no error, and leaves Packages unchanged.
C2_ReinsertIdempotent ==
    [][ \A i \in 1..Len(Packages) :
          ( /\ ret'.op = "Append"
            /\ SameTriple(Packages[i], ret'.arg)
            /\ Digest(Packages[i]) = Digest(ret'.arg) )
          => ( /\ Packages' = Packages
               /\ ret'.existing = Packages[i]
               /\ ~ret'.err ) ]_vars

\* C2 witness: an Append of a distinct object with the digest of the stored
\* record returned the stored record, in a repository of two entries.
C2_Witness ==
    /\ ret.op = "Append" /\ ~ret.err /\ ret.existing # Nil
    /\ ret.existing.ptr # ret.arg.ptr
    /\ \E i \in 1..Len(Packages) : Packages[i] = ret.existing
    /\ Len(Packages) >= 2

\* C3: Append of a package whose triple is present but whose content differs
\* returns an error and leaves the repository as it was.
C3_ConflictRejected ==
    [][ \A i \in 1..Len(Packages) :
          ( /\ ret'.op = "Append"
            /\ SameTriple(Packages[i], ret'.arg)
            /\ ~SameContent(Packages[i], ret'.arg) )
          => ( ret'.err /\ Packages' = Packages ) ]_vars

\* C4: AddOverwrite(p) replaces in place or appends: where an entry with p's
\* triple exists that position holds p afterwards and nothing else changes,
\* otherwise p is appended at the end.
C4_OverwriteReplaces ==
    [][ ret'.op = "AddOverwrite" =>
          LET p == ret'.arg
              i == GetIndex(Packages, p.Metadata.Package, p.Metadata.Version,
                            p.Metadata.Architecture)
          IN  IF i # 0
              THEN /\ Packages' = [Packages EXCEPT ![i] = p]
                   /\ Get(Packages', p.Metadata.Package, p.Metadata.Version,
                          p.Metadata.Architecture) = p
              ELSE Packages' = Packages \o <<p>> ]_vars

-----------------------------------------------------------------------------
(* Package.WriteTo: control file, control archive, data archive *)

\* the writeField closure: nothing is written for an empty value
writeField(field, value) ==
    IF value # <<>> THEN field \o <<":", " ">> \o value \o <<"\n">> ELSE <<>>

\* the writeRel closure
writeRel(field, items) ==
    IF Len(items) > 0 THEN writeField(field, Join(items, <<",", " ">>)) ELSE <<>>

\* one line of the extended description
DescLine(line) ==
    IF TrimSpace(line) = <<>> THEN <<" ", ".", "\n">>
    ELSE IF HasPrefix(line, <<" ">>) THEN line \o <<"\n">>
    ELSE <<" ">> \o line \o <<"\n">>

\* the Description block of generateControlFile
writeDescription(desc) ==
    IF desc = <<>> THEN <<>>
    ELSE LET lines == Split(desc, "\n")
         IN  writeField(FieldDescription, lines[1])
             \o Concat([i \in 1..(Len(lines) - 1) |-> DescLine(lines[i + 1])])

\* the permutations of a finite set, as sequences: the orders in which a
\* range statement may visit the keys of a map
Orders(S) ==
    {o \in [1..Cardinality(S) -> S] : \A x \in S : \E i \in DOMAIN o : o[i] = x}

\* Package.generateControlFile; keyOrder is the order in which the range
\* over ExtraFields visits the keys
generateControlFile(p, installedBytes, keyOrder) ==
    LET m == p.Metadata
    IN  writeField(FieldPackage, m.Package)
        \o writeField(FieldVersion, m.Version)
        \o writeField(FieldArchitecture, m.Architecture)
        \o writeField(FieldMaintainer, m.Maintainer)
        \o writeField(FieldInstalledSize, Itoa(Kbytes(installedBytes)))
        \o writeField(FieldSection, m.Section)
        \o writeField(FieldPriority, m.Priority)
        \o writeField(FieldHomepage, m.Homepage)
        \o (IF m.Essential THEN writeField(FieldEssential, <<"y", "e", "s">>) ELSE <<>>)
        \o writeRel(FieldDepends, m.Depends)
        \o writeRel(FieldPreDepends, m.PreDepends)
        \o writeRel(FieldRecommends, m.Recommends)
        \o writeRel(FieldSuggests, m.Suggests)
        \o writeRel(FieldEnhances, m.Enhances)
        \o writeRel(FieldConflicts, m.Conflicts)
        \o writeRel(FieldBreaks, m.Breaks)
        \o writeRel(FieldReplaces, m.Replaces)
        \o writeRel(FieldProvides, m.Provides)
        \o writeField(FieldBuiltUsing, m.BuiltUsing)
        \o writeField(FieldSource, m.Source)
        \o Concat([i \in 1..Len(keyOrder) |->
                      writeField(keyOrder[i], m.ExtraFields[keyOrder[i]])])
        \o writeDescription(m.Description)

\* the characters of a byte string as one string
RECURSIVE StrCat(_)
StrCat(bytes) ==
    IF bytes = <<>> THEN ""
    ELSE IF Len(bytes) = 1 THEN bytes[1]
    ELSE LET half == Len(bytes) \div 2
         IN  StrCat(SubSeq(bytes, 1, half)) \o StrCat(SubSeq(bytes, half + 1, Len(bytes)))

\* crypto/md5 in hex, collision-free: one token that stands for the 32 digits
Md5Hex(body) == <<"md5:" \o StrCat(body)>>

\* a tar entry as tar.Writer stores it: a header without a type flag is
\* written as a regular file
TarEntry(name, mode, modTime, body) ==
    [Name |-> name, Typeflag |-> "TypeReg", Mode |-> mode, ModTime |-> modTime,
     Body |-> body]

\* the name buildDataArchive gives a payload file in data.tar
RelPath(destPath) ==
    LET rel == TrimPrefix(destPath, <<"/">>)
    IN  IF HasPrefix(rel, <<".", "/">>) THEN rel ELSE <<".", "/">> \o rel

\* Package.buildDataArchive: the entries of data.tar, the md5 of each
\* destination and the installed size in bytes
buildDataArchive(p, now) ==
    [ entries |-> [i \in 1..Len(p.Files) |->
                     TarEntry(RelPath(p.Files[i].DestPath), p.Files[i].Mode,
                              IF p.Files[i].ModTime = 0 THEN now ELSE p.Files[i].ModTime,
                              p.Files[i].Body)],
      md5Map |-> [d \in {p.Files[i].DestPath : i \in 1..Len(p.Files)} |->
                     LET last == CHOOSE i \in 1..Len(p.Files) :
                                    /\ p.Files[i].DestPath = d
                                    /\ \A j \in (i + 1)..Len(p.Files) : p.Files[j].DestPath # d
                     IN  Md5Hex(p.Files[last].Body)],
      installedSize |-> SumBodies(p.Files) ]

\* Package.generateMd5sums
generateMd5sums(md5Map) ==
    LET paths == SortStrings(DOMAIN md5Map)
    IN  Concat([i \in 1..Len(paths) |->
                   md5Map[paths[i]] \o <<" ", " ">> \o TrimPrefix(paths[i], <<"/">>)
                   \o <<"\n">>])

\* the destinations of the files flagged IsConf, in payload order
RECURSIVE ConffilesOf(_)
ConffilesOf(files) ==
    IF files = <<>> THEN <<>>
    ELSE (IF Head(files).IsConf THEN <<Head(files).DestPath>> ELSE <<>>)
         \o ConffilesOf(Tail(files))

ReservedControlFiles ==
    { FileControl, FileMd5sums, FileConffiles, FilePreinst, FilePostinst,
      FilePrerm, FilePostrm, FileConfig }

\* the maintainer scripts by their file name in the control archive
ScriptsByFile(p) ==
    [n \in {FilePreinst, FilePostinst, FilePrerm, FilePostrm, FileConfig} |->
        CASE n = FilePreinst -> p.Scripts.PreInst
          [] n = FilePostinst -> p.Scripts.PostInst
          [] n = FilePrerm -> p.Scripts.PreRm
          [] n = FilePostrm -> p.Scripts.PostRm
          [] n = FileConfig -> p.Scripts.Config]

\* the scripts that are written: the non-empty ones
WrittenScripts(p) == {n \in DOMAIN ScriptsByFile(p) : ScriptsByFile(p)[n] # <<>>}

\* the writeEntry closure of buildControlArchive
writeEntry(name, content, mode, now) == TarEntry(<<".", "/">> \o name, mode, now, content)

\* Package.buildControlArchive: the entries of control.tar. scriptOrder is
\* the order in which the range over the scripts map visits the written ones.
buildControlArchive(p, md5Map, installedSize, now, keyOrder, scriptOrder) ==
    LET conffiles == ConffilesOf(p.Files)
        extraNames == SortStrings(DOMAIN p.ExtraControlFiles)
    IN  <<writeEntry(FileControl, generateControlFile(p, installedSize, keyOrder), 420, now)>>
        \o <<writeEntry(FileMd5sums, generateMd5sums(md5Map), 420, now)>>
        \o (IF Len(conffiles) > 0
            THEN <<writeEntry(FileConffiles, Join(conffiles, <<"\n">>) \o <<"\n">>, 420, now)>>
            ELSE <<>>)
        \o [i \in 1..Len(scriptOrder) |->
               writeEntry(scriptOrder[i], ScriptsByFile(p)[scriptOrder[i]], 493, now)]
        \o Concat([i \in 1..Len(extraNames) |->
                      IF extraNames[i] \in ReservedControlFiles
                         \/ p.ExtraControlFiles[extraNames[i]] = <<>>
                      THEN <<>>
                      ELSE <<writeEntry(extraNames[i], p.ExtraControlFiles[extraNames[i]],
                                        420, now)>>])

PkgDebianBinary ==
    <<"d", "e", "b", "i", "a", "n", "-", "b", "i", "n", "a", "r", "y">>
PkgControlTarGz ==
    <<"c", "o", "n", "t", "r", "o", "l", ".", "t", "a", "r", ".", "g", "z">>
PkgDataTarGz == <<"d", "a", "t", "a", ".", "t", "a", "r", ".", "g", "z">>

\* a member of the ar container; a tar.gz member carries its tar entries
ArMember(name, body) == [Name |-> name, Body |-> body]

\* the choices a serialization makes outside the package: the clock, the map
\* iteration orders, and the installed size in bytes its control file is
\* generated from (WriteTo passes what buildDataArchive counted)
WriteToWith(p, now, keyOrder, scriptOrder, installedSize) ==
    LET data == buildDataArchive(p, now)
    IN  << ArMember(PkgDebianBinary, <<"2", ".", "0", "\n">>),
           ArMember(PkgControlTarGz,
                    buildControlArchive(p, data.md5Map, installedSize, now,
                                        keyOrder, scriptOrder)),
           ArMember(PkgDataTarGz, data.entries) >>

\* Package.WriteTo: the members of the .deb
WriteTo(p, now, keyOrder, scriptOrder) ==
    WriteToWith(p, now, keyOrder, scriptOrder, buildDataArchive(p, now).installedSize)

-----------------------------------------------------------------------------
(* NewPackage: parsing a .deb *)

\* strings.SplitN(line, ":", 2) of a line that contains a colon
SplitN2(line) ==
    LET i == IndexOf(line, ":")
    IN  <<SubSeq(line, 1, i - 1), SubSeq(line, i + 1, Len(line))>>

\* what the flush closure does for the Installed-Size key: nothing
flushInstalledSize(m, val) == m

\* the flush closure of parseControlFile
flush(m, currentKey, currentValue) ==
    IF currentKey = <<>> THEN m
    ELSE LET val == TrimSpace(currentValue)
         IN  CASE currentKey = FieldPackage -> [m EXCEPT !.Package = val]
               [] currentKey = FieldVersion -> [m EXCEPT !.Version = val]
               [] currentKey = FieldArchitecture -> [m EXCEPT !.Architecture = val]
               [] currentKey = FieldMaintainer -> [m EXCEPT !.Maintainer = val]
               [] currentKey = FieldDescription -> [m EXCEPT !.Description = val]
               [] currentKey = FieldSection -> [m EXCEPT !.Section = val]
               [] currentKey = FieldPriority -> [m EXCEPT !.Priority = val]
               [] currentKey = FieldHomepage -> [m EXCEPT !.Homepage = val]
               [] currentKey = FieldEssential ->
                      [m EXCEPT !.Essential = (val = <<"y", "e", "s">>)]
               [] currentKey = FieldDepends -> [m EXCEPT !.Depends = splitList(val)]
               [] currentKey = FieldPreDepends -> [m EXCEPT !.PreDepends = splitList(val)]
               [] currentKey = FieldRecommends -> [m EXCEPT !.Recommends = splitList(val)]
               [] currentKey = FieldSuggests -> [m EXCEPT !.Suggests = splitList(val)]
               [] currentKey = FieldEnhances -> [m EXCEPT !.Enhances = splitList(val)]
               [] currentKey = FieldConflicts -> [m EXCEPT !.Conflicts = splitList(val)]
               [] currentKey = FieldBreaks -> [m EXCEPT !.Breaks = splitList(val)]
               [] currentKey = FieldReplaces -> [m EXCEPT !.Replaces = splitList(val)]
               [] currentKey = FieldProvides -> [m EXCEPT !.Provides = splitList(val)]
               [] currentKey = FieldBuiltUsing -> [m EXCEPT !.BuiltUsing = val]
               [] currentKey = FieldSource -> [m EXCEPT !.Source = val]
               [] currentKey = FieldInstalledSize -> flushInstalledSize(m, val)
               [] OTHER -> [m EXCEPT !.ExtraFields = MapPut(m.ExtraFields, currentKey, val)]

\* the loop of parseControlFile over the lines, then the final flush
RECURSIVE parseLines(_, _, _, _)
parseLines(lines, m, currentKey, currentValue) ==
    IF lines = <<>> THEN flush(m, currentKey, currentValue)
    ELSE LET line == Head(lines)
         IN  IF HasPrefix(line, <<" ">>) \/ HasPrefix(line, <<"\t">>)
             THEN parseLines(Tail(lines), m, currentKey, currentValue \o <<"\n">> \o line)
             ELSE IF Contains(line, ":")
             THEN parseLines(Tail(lines), flush(m, currentKey, currentValue),
                             SplitN2(line)[1], TrimSpace(SplitN2(line)[2]))
             ELSE parseLines(Tail(lines), m, currentKey, currentValue)

\* parseControlFile
parseControlFile(content, m) ==
    With(Split(content, "\n"), LAMBDA lines : parseLines(lines, m, <<>>, <<>>))

\* filepath.Base
Base(path) ==
    IF path = <<>> THEN <<".">>
    ELSE LET RECURSIVE strip(_)
             strip(s) == IF s # <<>> /\ s[Len(s)] = "/"
                         THEN strip(SubSeq(s, 1, Len(s) - 1)) ELSE s
             t == strip(path)
         IN  IF t = <<>> THEN <<"/">>
             ELSE SubSeq(t, LastIndexOf(t, "/") + 1, Len(t))

\* strings.ReplaceAll(s, "//", "/")
RECURSIVE ReplaceDoubleSlash(_)
ReplaceDoubleSlash(s) ==
    IF Len(s) < 2 THEN s
    ELSE IF s[1] = "/" /\ s[2] = "/"
    THEN <<"/">> \o ReplaceDoubleSlash(SubSeq(s, 3, Len(s)))
    ELSE <<s[1]>> \o ReplaceDoubleSlash(Tail(s))

\* the switch of NewPackage over one entry of the control archive; st holds
\* the package and the conffiles list read so far
controlEntry(st, th) ==
    LET name == Base(th.Name)
        content == th.Body
    IN  CASE name = FileControl ->
                 [st EXCEPT !.pkg.Metadata = parseControlFile(content, @)]
          [] name = FileConffiles ->
                 [st EXCEPT !.conffiles = Split(TrimSpace(content), "\n")]
          [] name = FilePreinst -> [st EXCEPT !.pkg.Scripts.PreInst = content]
          [] name = FilePostinst -> [st EXCEPT !.pkg.Scripts.PostInst = content]
          [] name = FilePrerm -> [st EXCEPT !.pkg.Scripts.PreRm = content]
          [] name = FilePostrm -> [st EXCEPT !.pkg.Scripts.PostRm = content]
          [] name = FileConfig -> [st EXCEPT !.pkg.Scripts.Config = content]
          [] name = FileMd5sums -> st
          [] OTHER ->
                 IF ~HasPrefix(name, <<".">>)
                 THEN [st EXCEPT !.pkg.ExtraControlFiles = MapPut(@, name, content)]
                 ELSE st

\* the body of NewPackage's loop over one entry of the data archive
dataEntry(st, th) ==
    IF th.Typeflag # "TypeReg" THEN st
    ELSE LET destPath == ReplaceDoubleSlash(<<"/">> \o TrimPrefix(th.Name, <<".", "/">>))
         IN  [st EXCEPT !.pkg.Files =
                 @ \o <<MkFile(destPath, th.Mode, th.Body, FALSE, th.ModTime)>>]

RECURSIVE readEntries(_, _, _)
readEntries(st, entries, isControl) ==
    IF entries = <<>> THEN st
    ELSE readEntries(IF isControl THEN controlEntry(st, Head(entries))
                     ELSE dataEntry(st, Head(entries)),
                     Tail(entries), isControl)

\* NewPackage's loop over the members of the ar container
RECURSIVE readMembers(_, _)
readMembers(st, members) ==
    IF members = <<>> THEN st
    ELSE LET header == Head(members)
         IN  readMembers(
                 IF HasPrefix(header.Name, <<"c", "o", "n", "t", "r", "o", "l", ".", "t", "a", "r">>)
                 THEN readEntries(st, header.Body, TRUE)
                 ELSE IF HasPrefix(header.Name, <<"d", "a", "t", "a", ".", "t", "a", "r">>)
                 THEN readEntries(st, header.Body, FALSE)
                 ELSE st,
                 Tail(members))

\* a reader that flags every file of a package that lists any conffile
markConffilesAll(files, conffiles) ==
    IF Len(conffiles) > 0
    THEN [i \in 1..Len(files) |-> [files[i] EXCEPT !.IsConf = TRUE]]
    ELSE files

\* the files of NewPackage after the conffiles list is applied
markConffiles(files, conffiles) ==
    IF Len(conffiles) > 0
    THEN LET confSet == {conffiles[i] : i \in 1..Len(conffiles)} \ {<<>>}
         IN  [i \in 1..Len(files) |->
                 IF files[i].DestPath \in confSet
                 THEN [files[i] EXCEPT !.IsConf = TRUE] ELSE files[i]]
    ELSE files

\* NewPackage of a well-formed .deb; ptr is the identity of the new object
NewPackage(members, ptr) ==
    With(readMembers([pkg |-> [EmptyPackage EXCEPT !.ptr = ptr], conffiles |-> <<>>],
                     members),
         LAMBDA st : [st.pkg EXCEPT !.Files = markConffiles(@, st.conffiles)])

-----------------------------------------------------------------------------
(* The packages the codec and the digest are exercised on *)

A == <<"a">>
B == <<"b">>
W == <<"w">>
DestF == <<"/", "f">>
DestG == <<"/", "g">>
Triggers == <<"t", "r", "i", "g", "g", "e", "r", "s">>

\* longest payload of a pool package
MaxFiles == 2
\* latest modification time of a payload file; 0 is the zero time.Time
MaxModTime == 1
\* the clock reading of a serialization
Now == MaxModTime + 1

\* a package built in memory: a fresh object, then Set for each field
RECURSIVE SetAll(_, _)
SetAll(p, kvs) ==
    IF kvs = <<>> THEN p ELSE SetAll(Set(p, Head(kvs)[1], Head(kvs)[2]), Tail(kvs))

BasePkg ==
    SetAll([EmptyPackage EXCEPT !.ptr = <<1, "mem">>],
           << <<FieldPackage, PoolName>>, <<FieldVersion, <<"1">>>>,
              <<FieldArchitecture, PoolArch>> >>)

\* the payload files callers put in a package
FilePool ==
    { MkFile(DestF, 420, B, FALSE, 0), MkFile(DestF, 420, A, TRUE, 0),
      MkFile(DestG, 493, A, FALSE, 0) }

RECURSIVE SeqsUpTo(_, _)
SeqsUpTo(S, n) ==
    IF n = 0 THEN {<<>>}
    ELSE LET shorter == SeqsUpTo(S, n - 1)
         IN  shorter \cup {s \o <<x>> : s \in shorter, x \in S}

DescChoices == {<<>>, A, <<"a", "\n", "b">>}
FieldChoices ==
    { <<>>, << <<X, A>> >>, << <<X, A>>, <<W, A>> >>, << <<FieldDepends, <<"a", ",", " ", "b">>>> >> }
ControlFileChoices == {EmptyMap, MapPut(EmptyMap, Triggers, A), MapPut(EmptyMap, FileControl, A)}

CodecPool ==
    { [SetAll(BasePkg, <<<<FieldDescription, d>>>> \o kvs)
          EXCEPT !.Files = files, !.ExtraControlFiles = ecf, !.Scripts.PostInst = X]
      : d \in DescChoices, kvs \in FieldChoices, files \in SeqsUpTo(FilePool, MaxFiles),
        ecf \in ControlFileChoices }

\* the Installed-Size values callers and foreign control files carry
SizeValues == {<<"7">>, A}
DeclaredSizes == {0, 2048}

-----------------------------------------------------------------------------
(* The codec as a state machine: a package in memory is written to a .deb   *)
(* and a .deb is read back                                                  *)

InitCodec ==
    /\ held \in CodecPool
    /\ deb = NoDeb /\ parsed = Nil /\ call = NoCall /\ sum = NoSum
    /\ IdleRepo /\ IdleBump /\ IdleBuild /\ IdleApt /\ IdleTmpl /\ IdleHub /\ IdleStd

\* Set("Installed-Size", x) on the package in memory
DoSetInstalledSize ==
    \E value \in SizeValues :
        /\ held' = Set(held, FieldInstalledSize, value)
        /\ call' = [op |-> "Set", key |-> FieldInstalledSize, value |-> value]
        /\ UNCHANGED <<deb, parsed, sum>>
        /\ UNCHANGED <<repoVars, bumpVars, buildVars, aptVars, tmplVars, hubVars, stdVars>>

\* held.WriteTo(w)
DoWriteTo ==
    \E keyOrder \in Orders(DOMAIN held.Metadata.ExtraFields),
       scriptOrder \in Orders(WrittenScripts(held)) :
        /\ deb' = [tool |-> "WriteTo", src |-> held, now |-> Now, keyOrder |-> keyOrder,
                   scriptOrder |-> scriptOrder,
                   size |-> buildDataArchive(held, Now).installedSize,
                   members |-> WriteTo(held, Now, keyOrder, scriptOrder)]
        /\ call' = [op |-> "WriteTo", key |-> <<>>, value |-> <<>>]
        /\ UNCHANGED <<held, parsed, sum>>
        /\ UNCHANGED <<repoVars, bumpVars, buildVars, aptVars, tmplVars, hubVars, stdVars>>

\* a .deb of the same package that another tool built: its control file
\* declares an Installed-Size of that tool's choosing
DoForeignDeb ==
    \E keyOrder \in Orders(DOMAIN held.Metadata.ExtraFields),
       scriptOrder \in Orders(WrittenScripts(held)),
       size \in DeclaredSizes :
        /\ deb' = [tool |-> "foreign", src |-> held, now |-> Now, keyOrder |-> keyOrder,
                   scriptOrder |-> scriptOrder, size |-> size,
                   members |-> WriteToWith(held, Now, keyOrder, scriptOrder, size)]
        /\ call' = [op |-> "foreign", key |-> <<>>, value |-> <<>>]
        /\ UNCHANGED <<held, parsed, sum>>
        /\ UNCHANGED <<repoVars, bumpVars, buildVars, aptVars, tmplVars, hubVars, stdVars>>

\* NewPackage(r) on the last .deb
DoNewPackage ==
    /\ deb # NoDeb
    /\ parsed' = NewPackage(deb.members, <<2, "parsed">>)
    /\ call' = [op |-> "NewPackage", key |-> <<>>, value |-> <<>>]
    /\ UNCHANGED <<held, deb, sum>>
    /\ UNCHANGED <<repoVars, bumpVars, buildVars, aptVars, tmplVars, hubVars, stdVars>>

NextCodec == DoSetInstalledSize \/ DoWriteTo \/ DoForeignDeb \/ DoNewPackage

SpecCodec == InitCodec /\ [][NextCodec]_vars

-----------------------------------------------------------------------------
(* Claims about the codec *)

\* the values of the lines of a control file that carry the field key
FieldLines(text, key) ==
    LET lines == Split(text, "\n")
        prefix == key \o <<":", " ">>
    IN  SelectSeq([i \in 1..Len(lines) |->
                      IF HasPrefix(lines[i], prefix)
                      THEN <<"=">> \o TrimPrefix(lines[i], prefix) ELSE <<>>],
                  LAMBDA v : v # <<>>)

\* the control file inside the members of a .deb
ControlText(members) == members[2].Body[1].Body

\* C6: reading back the bytes WriteTo produced for a package in memory gives
\* a package whose Digest equals the Digest of the package that was written.
C6_DigestRoundTrip ==
    [][(call'.op = "NewPackage" /\ deb.tool = "WriteTo")
          => Digest(parsed') = Digest(deb.src)]_vars

\* C9: Set("Installed-Size", x) leaves the package as it was, whatever x is;
\* the package NewPackage returns is the same whatever Installed-Size the
\* control file of the .deb declares; and the Installed-Size that WriteTo
\* emits is the payload's size in bytes divided by 1024, rounded up. So the
\* digest depends on no declared size.
C9_InstalledSizeIgnored ==
    [][ /\ call'.op = "Set" =>
              /\ held' = held
              /\ Digest(held') = Digest(held)
        /\ call'.op = "NewPackage" =>
              \A size \in DeclaredSizes \cup {deb.size, SumBodies(deb.src.Files)} :
                  /\ NewPackage(WriteToWith(deb.src, deb.now, deb.keyOrder,
                                            deb.scriptOrder, size), parsed'.ptr) = parsed'
                  /\ FieldInstalledSize \notin DOMAIN parsed'.Metadata.ExtraFields
        /\ call'.op = "WriteTo" =>
              FieldLines(ControlText(deb'.members), FieldInstalledSize)
                  = << <<"=">> \o Itoa(Kbytes(SumBodies(held.Files))) >>
      ]_vars

\* a .deb that declares 2048 bytes for a one-byte payload has been read, after
\* a Set("Installed-Size", x) on the package it was built from
C9_Witness ==
    /\ call.op = "NewPackage" /\ deb.tool = "foreign" /\ deb.size = 2048
    /\ Len(parsed.Files) = 1
    /\ Digest(parsed) = Digest(held)

-----------------------------------------------------------------------------
(* The digest as a state machine: a caller holds a package, rewrites the    *)
(* modification times and the order of its payload, and calls Digest        *)

DigestPool ==
    PoolOf(1) \cup { [BasePkg EXCEPT !.Files = files] : files \in SeqsUpTo(FilePool, MaxFiles) }

InitDigest ==
    /\ held \in DigestPool
    /\ deb = NoDeb /\ parsed = Nil /\ call = NoCall /\ sum = NoSum
    /\ IdleRepo /\ IdleBump /\ IdleBuild /\ IdleApt /\ IdleTmpl /\ IdleHub /\ IdleStd

\* p.Digest()
DoDigest ==
    /\ sum' = [p |-> held, d |-> Digest(held)]
    /\ call' = [op |-> "Digest", key |-> <<>>, value |-> <<>>]
    /\ UNCHANGED <<held, deb, parsed>>
    /\ UNCHANGED <<repoVars, bumpVars, buildVars, aptVars, tmplVars, hubVars, stdVars>>

\* p.Files[i].ModTime = t
DoSetModTime ==
    \E i \in 1..Len(held.Files), t \in 0..MaxModTime :
        /\ held' = [held EXCEPT !.Files[i].ModTime = t]
        /\ call' = [op |-> "ModTime", key |-> <<i>>, value |-> <<t>>]
        /\ UNCHANGED <<deb, parsed, sum>>
        /\ UNCHANGED <<repoVars, bumpVars, buildVars, aptVars, tmplVars, hubVars, stdVars>>

\* p.Files is reordered
DoPermuteFiles ==
    \E o \in Orders(1..Len(held.Files)) :
        /\ held' = [held EXCEPT !.Files = [i \in 1..Len(held.Files) |-> held.Files[o[i]]]]
        /\ call' = [op |-> "Permute", key |-> o, value |-> <<>>]
        /\ UNCHANGED <<deb, parsed, sum>>
        /\ UNCHANGED <<repoVars, bumpVars, buildVars, aptVars, tmplVars, hubVars, stdVars>>

\* the caller turns to another package
DoTake ==
    \E p \in DigestPool :
        /\ held' = p
        /\ call' = [op |-> "Take", key |-> <<>>, value |-> <<>>]
        /\ UNCHANGED <<deb, parsed, sum>>
        /\ UNCHANGED <<repoVars, bumpVars, buildVars, aptVars, tmplVars, hubVars, stdVars>>

NextDigest == DoDigest \/ DoSetModTime \/ DoPermuteFiles \/ DoTake

SpecDigest == InitDigest /\ [][NextDigest]_vars

-----------------------------------------------------------------------------
(* Claims about the digest *)

\* C7: the byte stream Digest absorbs is an injective encoding of the
\* content: a package whose digest equals a digest computed before has the
\* same metadata, lists, extra fields, scripts, extra control files and set
\* of payload entries as the package that digest was computed on.
C7_DigestInjective ==
    (sum # NoSum /\ Digest(held) = sum.d) => SameContent(held, sum.p)

\* C8: changing the ModTime of a payload file, or permuting the payload
\* files in any way, leaves the result of Digest unchanged.
C8_DigestIgnoresTimeAndOrder ==
    [][call'.op \in {"ModTime", "Permute"} => Digest(held') = Digest(held)]_vars

-----------------------------------------------------------------------------
(* BumpVersion *)

\* the byte that follows c in ASCII (runes[i]++)
Succ(c) == AsciiOrder[Ord(c) + 1]

IsLower(c) == Ord(c) >= Ord("a") /\ Ord(c) <= Ord("z")

\* the value of a non-empty string of decimal digits
RECURSIVE DigitsVal(_)
DigitsVal(s) ==
    IF s = <<>> THEN 0 ELSE DigitsVal(SubSeq(s, 1, Len(s) - 1)) * 10 + DigitVal(s[Len(s)])

\* strconv.Atoi: an optional sign, then one or more decimal digits. The
\* strings of the model stay far below the 19 digits that give ErrRange.
Atoi(s) ==
    LET signed == s # <<>> /\ s[1] \in {"+", "-"}
        body == IF signed THEN Tail(s) ELSE s
    IN  IF body # <<>> /\ \A i \in 1..Len(body) : IsDigit(body[i])
        THEN [ok |-> TRUE,
              val |-> IF signed /\ s[1] = "-" THEN 0 - DigitsVal(body) ELSE DigitsVal(body)]
        ELSE [ok |-> FALSE, val |-> 0]

\* strconv.Itoa
FormatInt(n) == IF n < 0 THEN <<"-">> \o Itoa(0 - n) ELSE Itoa(n)

\* the loop of BumpVersion over the runes of the revision, from the last one
RECURSIVE bumpRunes(_, _, _, _)
bumpRunes(v, prefix, runes, i) ==
    IF i = 0 THEN v \o <<"1">>
    ELSE LET c == runes[i]
         IN  IF IsDigit(c) /\ c # "9"
             THEN prefix \o [runes EXCEPT ![i] = Succ(c)]
             ELSE IF c = "9"
             THEN prefix \o [runes EXCEPT ![i] = "a"]
             ELSE IF IsLower(c) /\ c # "z"
             THEN prefix \o [runes EXCEPT ![i] = Succ(c)]
             ELSE IF c = "z"
             THEN prefix \o SubSeq(runes, 1, i) \o <<"0">> \o SubSeq(runes, i + 1, Len(runes))
             ELSE bumpRunes(v, prefix, runes, i - 1)

\* BumpVersion
BumpVersion(v) ==
    LET idx == LastIndexOf(v, "-")
    IN  IF idx = 0 THEN v \o <<"-", "1">>
        ELSE LET prefix == SubSeq(v, 1, idx)
                 rev == SubSeq(v, idx + 1, Len(v))
             IN  IF rev = <<>> THEN prefix \o <<"1">>
                 ELSE IF Atoi(rev).ok THEN prefix \o FormatInt(Atoi(rev).val + 1)
                 ELSE bumpRunes(v, prefix, rev, Len(rev))

\* longest revision of an input version
MaxRevLen == 3

\* the upstream parts and the revision characters of the input versions
Upstreams == {<<"1">>, <<"1", ".", "0">>, <<"2", "-", "0">>}
RevAlphabet == {"0", "1", "9", "a", "z", "A", ".", "+", "~"}

BumpInputs ==
    Upstreams \cup {u \o <<"-">> \o r : u \in Upstreams, r \in SeqsUpTo(RevAlphabet, MaxRevLen)}

InitBump ==
    /\ oldVer \in BumpInputs
    /\ newVer = <<>>
    /\ IdleRepo /\ IdlePkg /\ IdleBuild /\ IdleApt /\ IdleTmpl /\ IdleHub /\ IdleStd

\* newVer := BumpVersion(oldVer)
DoBumpVersion ==
    /\ newVer' = BumpVersion(oldVer)
    /\ UNCHANGED oldVer
    /\ UNCHANGED <<repoVars, pkgVars, buildVars, aptVars, tmplVars, hubVars, stdVars>>

NextBump == DoBumpVersion

SpecBump == InitBump /\ [][NextBump]_vars

-----------------------------------------------------------------------------
(* Debian version ordering (Debian policy 5.6.12, dpkg's verrevcmp) *)

IsLetter(c) ==
    \/ (Ord(c) >= Ord("a") /\ Ord(c) <= Ord("z"))
    \/ (Ord(c) >= Ord("A") /\ Ord(c) <= Ord("Z"))

\* the weight of the first character of s: the end of the string and digits
\* weigh nothing, the tilde sorts before everything, letters before the rest
DebOrder(s) ==
    IF s = <<>> \/ IsDigit(s[1]) THEN 0
    ELSE IF s[1] = "~" THEN 0 - 1
    ELSE IF IsLetter(s[1]) THEN Ord(s[1])
    ELSE Ord(s[1]) + 256

RECURSIVE StripZeros(_)
StripZeros(s) == IF s # <<>> /\ s[1] = "0" THEN StripZeros(Tail(s)) ELSE s

\* the length of the leading run of digits
RECURSIVE DigitRun(_)
DigitRun(s) == IF s # <<>> /\ IsDigit(s[1]) THEN 1 + DigitRun(Tail(s)) ELSE 0

\* negative, zero or positive as a sorts before, with or after b
RECURSIVE verrevcmp(_, _)
verrevcmp(a, b) ==
    IF a = <<>> /\ b = <<>> THEN 0
    ELSE IF (a # <<>> /\ ~IsDigit(a[1])) \/ (b # <<>> /\ ~IsDigit(b[1]))
    THEN IF DebOrder(a) # DebOrder(b) THEN DebOrder(a) - DebOrder(b)
         ELSE verrevcmp(Tail(a), Tail(b))
    ELSE LET za == StripZeros(a)
             zb == StripZeros(b)
             na == DigitRun(za)
             nb == DigitRun(zb)
             da == SubSeq(za, 1, na)
             db == SubSeq(zb, 1, nb)
         IN  IF na # nb THEN na - nb
             ELSE IF da # db THEN (IF StrLess(da, db) THEN 0 - 1 ELSE 1)
             ELSE verrevcmp(SubSeq(za, na + 1, Len(za)), SubSeq(zb, nb + 1, Len(zb)))

DebEpoch(v) == IF Contains(v, ":") THEN SubSeq(v, 1, IndexOf(v, ":") - 1) ELSE <<>>
DebNoEpoch(v) == IF Contains(v, ":") THEN SubSeq(v, IndexOf(v, ":") + 1, Len(v)) ELSE v
DebUpstream(v) ==
    LET w == DebNoEpoch(v)
    IN  IF Contains(w, "-") THEN SubSeq(w, 1, LastIndexOf(w, "-") - 1) ELSE w
DebRevision(v) ==
    LET w == DebNoEpoch(v)
    IN  IF Contains(w, "-") THEN SubSeq(w, LastIndexOf(w, "-") + 1, Len(w)) ELSE <<>>

\* negative, zero or positive as version v1 is older than, equal to or newer
\* than v2
DebianCompare(v1, v2) ==
    IF verrevcmp(DebEpoch(v1), DebEpoch(v2)) # 0 THEN verrevcmp(DebEpoch(v1), DebEpoch(v2))
    ELSE IF verrevcmp(DebUpstream(v1), DebUpstream(v2)) # 0
    THEN verrevcmp(DebUpstream(v1), DebUpstream(v2))
    ELSE verrevcmp(DebRevision(v1), DebRevision(v2))

\* C10: for every version string v, BumpVersion(v) is strictly newer than v
\* under Debian version ordering.
C10_BumpStrictlyNewer ==
    newVer # <<>> => DebianCompare(newVer, oldVer) > 0

\* the characters the stated rule set bumps: 0-9 and a-z
IsRuleAlnum(c) == IsDigit(c) \/ IsLower(c)

\* a revision made of decimal digits only
PurelyDecimal(rev) == rev # <<>> /\ \A i \in 1..Len(rev) : IsDigit(rev[i])

\* the position of the last character of rev that the rule set bumps, or 0
LastAlnum(rev) ==
    IF \E i \in 1..Len(rev) : IsRuleAlnum(rev[i])
    THEN CHOOSE i \in 1..Len(rev) :
             IsRuleAlnum(rev[i]) /\ \A j \in (i + 1)..Len(rev) : ~IsRuleAlnum(rev[j])
    ELSE 0

\* the stated rule applies to v and gives out
FollowsRules(v, out) ==
    LET idx == LastIndexOf(v, "-")
        prefix == SubSeq(v, 1, idx)
        rev == SubSeq(v, idx + 1, Len(v))
        i == LastAlnum(rev)
        c == rev[i]
    IN  IF idx = 0 THEN out = v \o <<"-", "1">>
        ELSE IF rev = <<>> THEN out = prefix \o <<"1">>
        ELSE IF PurelyDecimal(rev) THEN out = prefix \o Itoa(DigitsVal(rev) + 1)
        ELSE IF i = 0 THEN TRUE
        ELSE IF c = "z"
        THEN out = prefix \o SubSeq(rev, 1, i) \o <<"0">> \o SubSeq(rev, i + 1, Len(rev))
        ELSE out = prefix \o [rev EXCEPT ![i] = IF c = "9" THEN "a" ELSE Succ(c)]

\* C11: BumpVersion follows the stated rule set for every input: no hyphen
\* appends "-1", an empty revision becomes "1", a purely decimal revision is
\* incremented numerically, and otherwise the last alphanumeric character of
\* the revision is bumped and every other character is left unchanged.
C11_BumpFollowsRules ==
    newVer # <<>> => FollowsRules(oldVer, newVer)

-----------------------------------------------------------------------------
(* The flat repository on disk: WriteToDir and NewRepositoryFromDir *)

RelOrigin == <<"O", "r", "i", "g", "i", "n">>
RelLabel == <<"L", "a", "b", "e", "l">>
RelSuite == <<"S", "u", "i", "t", "e">>
RelVersion == <<"V", "e", "r", "s", "i", "o", "n">>
RelCodename == <<"C", "o", "d", "e", "n", "a", "m", "e">>
RelDate == <<"D", "a", "t", "e">>
RelValidUntil == <<"V", "a", "l", "i", "d", "-", "U", "n", "t", "i", "l">>
RelArchitectures == <<"A", "r", "c", "h", "i", "t", "e", "c", "t", "u", "r", "e", "s">>
RelComponents == <<"C", "o", "m", "p", "o", "n", "e", "n", "t", "s">>
RelDescription == <<"D", "e", "s", "c", "r", "i", "p", "t", "i", "o", "n">>
RelNotAutomatic == <<"N", "o", "t", "A", "u", "t", "o", "m", "a", "t", "i", "c">>
RelButAutomaticUpgrades == <<"B", "u", "t", "A", "u", "t", "o", "m", "a", "t", "i", "c", "U", "p", "g", "r", "a", "d", "e", "s">>
RelAcquireByHash == <<"A", "c", "q", "u", "i", "r", "e", "-", "B", "y", "-", "H", "a", "s", "h">>
RelSHA256 == <<"S", "H", "A", "2", "5", "6">>

FieldFilename == <<"F", "i", "l", "e", "n", "a", "m", "e">>
FieldSize == <<"S", "i", "z", "e">>
FieldSHA256 == <<"S", "H", "A", "2", "5", "6">>
FieldMD5sum == <<"M", "D", "5", "s", "u", "m">>
FieldSHA1 == <<"S", "H", "A", "1">>
NamePackages == <<"P", "a", "c", "k", "a", "g", "e", "s">>
NamePackagesGz == <<"P", "a", "c", "k", "a", "g", "e", "s", ".", "g", "z">>
NameInRelease == <<"I", "n", "R", "e", "l", "e", "a", "s", "e">>
NamePublicGpg == <<"p", "u", "b", "l", "i", "c", ".", "g", "p", "g">>
NamePublicAsc == <<"p", "u", "b", "l", "i", "c", ".", "a", "s", "c">>
NameRelease == <<"R", "e", "l", "e", "a", "s", "e">>
SuffixDeb == <<".", "d", "e", "b">>

\* ArchiveInfo with every field empty
EmptyArchiveInfo ==
    [ Origin |-> <<>>, Label |-> <<>>, Suite |-> <<>>, Version |-> <<>>,
      Codename |-> <<>>, Date |-> <<>>, ValidUntil |-> <<>>, Architectures |->
      <<>>, Components |-> <<>>, Description |-> <<>>, NotAutomatic |-> <<>>,
      ButAutomaticUpgrades |-> <<>>, AcquireByHash |-> <<>> ]

\* sha256 in hex, collision-free: one token that stands for the 64 digits
Sha256Hex(bytes) == <<"sha256:" \o StrCat(bytes)>>

\* the bytes of a tar archive: for each entry the header fields, then the
\* body behind its length
RECURSIVE TarBytes(_)
TarBytes(entries) ==
    IF entries = <<>> THEN <<>>
    ELSE LET e == Head(entries)
         IN  e.Name \o <<"|", e.Typeflag, "|">> \o Itoa(e.Mode) \o <<"|">> \o Itoa(e.ModTime)
             \o <<"|">> \o Itoa(Len(e.Body)) \o <<":">> \o e.Body \o TarBytes(Tail(entries))

\* the bytes of a .deb: for each member of the ar archive its name and its
\* body behind its length
RECURSIVE DebBytes(_)
DebBytes(members) ==
    IF members = <<>> THEN <<>>
    ELSE LET m == Head(members)
             body == IF m.Name = PkgDebianBinary THEN m.Body ELSE TarBytes(m.Body)
         IN  m.Name \o <<"|">> \o Itoa(Len(body)) \o <<":">> \o body \o DebBytes(Tail(members))

\* the bytes of a gzip stream
GzipBytes(g) == <<"g", "z", ":">> \o g.gz

\* the rendering of a time.Time in a Release file: one token per instant
FormatTime(t) == <<"t">> \o Itoa(t)

\* gzip of a byte string: a container that gives back what was put in
Gzip(content) == [gz |-> content]

\* the size in bytes of a tar archive: a 512-byte header and the body padded
\* to 512 bytes for each entry, and two closing blocks
RECURSIVE TarSize(_)
TarSize(entries) ==
    IF entries = <<>> THEN 1024
    ELSE 512 + ((Len(Head(entries).Body) + 511) \div 512) * 512 + TarSize(Tail(entries))

\* len(content) of a .deb: the ar magic, then a 60-byte header and the body
\* for each member; the archives inside are counted uncompressed
RECURSIVE MembersSize(_)
MembersSize(members) ==
    IF members = <<>> THEN 0
    ELSE 60 + (IF Head(members).Name = PkgDebianBinary THEN Len(Head(members).Body)
               ELSE TarSize(Head(members).Body))
         + MembersSize(Tail(members))

DebSize(members) == 8 + MembersSize(members)

\* len of a gzip stream, counted uncompressed
GzipSize(g) == Len(g.gz)

\* strings.Split with a separator of any length
RECURSIVE SplitOn(_, _)
SplitOn(s, sep) ==
    LET hits == {i \in 1..(Len(s) - Len(sep) + 1) : SubSeq(s, i, i + Len(sep) - 1) = sep}
    IN  IF hits = {} THEN <<s>>
        ELSE LET i == CHOOSE h \in hits : \A g \in hits : h <= g
             IN  <<SubSeq(s, 1, i - 1)>> \o SplitOn(SubSeq(s, i + Len(sep), Len(s)), sep)

\* delete(m, k)
MapDelete(m, k) == [x \in (DOMAIN m) \ {k} |-> m[x]]

PrefixControlTar == <<"c", "o", "n", "t", "r", "o", "l", ".", "t", "a", "r">>
PrefixDataTar == <<"d", "a", "t", "a", ".", "t", "a", "r">>

\* extractControlFromBytes: the body of the first entry named control in the
\* first control.tar member that has one
extractControlFromBytes(members) ==
    LET tars == {i \in 1..Len(members) : HasPrefix(members[i].Name, PrefixControlTar)}
        found == { ij \in UNION {{i} \X (1..Len(members[i].Body)) : i \in tars} :
                     Base(members[ij[1]].Body[ij[2]].Name) = FileControl }
    IN  IF found = {} THEN [ok |-> FALSE, control |-> <<>>]
        ELSE LET first == CHOOSE f \in found :
                              \A g \in found : f[1] < g[1] \/ (f[1] = g[1] /\ f[2] <= g[2])
             IN  [ok |-> TRUE, control |-> members[first[1]].Body[first[2]].Body]

\* the value parseControlFields keeps for a field: that of the last line that
\* starts with the field name, a colon and a space
lastFieldValue(lines, field) ==
    LET prefix == field \o <<":", " ">>
        hits == {i \in 1..Len(lines) : HasPrefix(lines[i], prefix)}
    IN  IF hits = {} THEN <<>>
        ELSE TrimSpace(TrimPrefix(lines[CHOOSE h \in hits : \A g \in hits : g <= h], prefix))

\* parseControlFields
parseControlFields(control) ==
    With(Split(control, "\n"),
         LAMBDA lines : << lastFieldValue(lines, FieldPackage),
                           lastFieldValue(lines, FieldVersion),
                           lastFieldValue(lines, FieldArchitecture) >>)

\* parseDeb
parseDeb(members, filename) ==
    With(extractControlFromBytes(members), LAMBDA c :
    With(parseControlFields(c.control), LAMBDA pva :
        [ ok |-> c.ok, Package |-> pva[1], Version |-> pva[2], Architecture |-> pva[3],
          Control |-> c.control, Filename |-> filename, Size |-> DebSize(members),
          SHA256 |-> Sha256Hex(DebBytes(members)) ]))

\* generatePackagesFile
RECURSIVE generatePackagesFile(_)
generatePackagesFile(index) ==
    IF index = <<>> THEN <<>>
    ELSE LET rp == Head(index)
         IN  rp.Control
             \o (IF ~HasSuffix(rp.Control, <<"\n">>) THEN <<"\n">> ELSE <<>>)
             \o FieldFilename \o <<":", " ">> \o rp.Filename \o <<"\n">>
             \o FieldSize \o <<":", " ">> \o Itoa(rp.Size) \o <<"\n">>
             \o FieldSHA256 \o <<":", " ">> \o rp.SHA256 \o <<"\n", "\n">>
             \o generatePackagesFile(Tail(index))

\* a Release file whose second checksum entry is taken from Packages too
generateReleaseFileOneHash(info, packages, packagesGz, now) ==
    writeField(RelOrigin, info.Origin)
        \o writeField(RelLabel, info.Label)
        \o writeField(RelDate, IF info.Date # <<>> THEN info.Date ELSE FormatTime(now))
        \o RelSHA256 \o <<":", "\n">>
        \o <<" ">> \o Sha256Hex(packages) \o <<" ">> \o Itoa(Len(packages)) \o <<" ">>
           \o NamePackages \o <<"\n">>
        \o <<" ">> \o Sha256Hex(packages) \o <<" ">> \o Itoa(Len(packages)) \o <<" ">>
           \o NamePackagesGz \o <<"\n">>

\* generateReleaseFile; now is the clock reading used when info has no Date
generateReleaseFile(info, packages, packagesGz, now) ==
    writeField(RelOrigin, info.Origin)
        \o writeField(RelLabel, info.Label)
        \o writeField(RelSuite, info.Suite)
        \o writeField(RelVersion, info.Version)
        \o writeField(RelCodename, info.Codename)
        \o writeField(RelDate, IF info.Date # <<>> THEN info.Date ELSE FormatTime(now))
        \o writeField(RelValidUntil, info.ValidUntil)
        \o writeField(RelArchitectures, info.Architectures)
        \o writeField(RelComponents, info.Components)
        \o writeField(RelDescription, info.Description)
        \o writeField(RelNotAutomatic, info.NotAutomatic)
        \o writeField(RelButAutomaticUpgrades, info.ButAutomaticUpgrades)
        \o writeField(RelAcquireByHash, info.AcquireByHash)
        \o RelSHA256 \o <<":", "\n">>
        \o <<" ">> \o Sha256Hex(packages) \o <<" ">> \o Itoa(Len(packages)) \o <<" ">>
           \o NamePackages \o <<"\n">>
        \o <<" ">> \o Sha256Hex(GzipBytes(packagesGz)) \o <<" ">> \o Itoa(GzipSize(packagesGz)) \o <<" ">>
           \o NamePackagesGz \o <<"\n">>

\* one line of parseReleaseFile
releaseLine(info, line) ==
    IF HasPrefix(line, <<" ">>) \/ line = <<>> \/ ~Contains(line, ":") THEN info
    ELSE LET key == TrimSpace(SplitN2(line)[1])
             val == TrimSpace(SplitN2(line)[2])
         IN
          CASE key = RelOrigin -> [info EXCEPT !.Origin = val]
            [] key = RelLabel -> [info EXCEPT !.Label = val]
            [] key = RelSuite -> [info EXCEPT !.Suite = val]
            [] key = RelVersion -> [info EXCEPT !.Version = val]
            [] key = RelCodename -> [info EXCEPT !.Codename = val]
            [] key = RelDate -> [info EXCEPT !.Date = val]
            [] key = RelValidUntil -> [info EXCEPT !.ValidUntil = val]
            [] key = RelArchitectures -> [info EXCEPT !.Architectures = val]
            [] key = RelComponents -> [info EXCEPT !.Components = val]
            [] key = RelDescription -> [info EXCEPT !.Description = val]
            [] key = RelNotAutomatic -> [info EXCEPT !.NotAutomatic = val]
            [] key = RelButAutomaticUpgrades -> [info EXCEPT !.ButAutomaticUpgrades = val]
            [] key = RelAcquireByHash -> [info EXCEPT !.AcquireByHash = val]
            [] OTHER -> info

\* parseReleaseFile
RECURSIVE releaseLines(_, _)
releaseLines(info, lines) ==
    IF lines = <<>> THEN info ELSE releaseLines(releaseLine(info, Head(lines)), Tail(lines))

parseReleaseFile(content, info) == releaseLines(info, Split(content, "\n"))

\* parsePackagesIndex: one Package per stanza, with metadata only
parsePackagesIndex(content) ==
    LET clean(m) == [m EXCEPT !.ExtraFields =
                        MapDelete(MapDelete(MapDelete(MapDelete(MapDelete(@,
                            FieldFilename), FieldSize), FieldSHA256), FieldMD5sum), FieldSHA1)]
    IN  With(SelectSeq(SplitOn(content, <<"\n", "\n">>), LAMBDA st : TrimSpace(st) # <<>>),
             LAMBDA stanzas :
                 [i \in 1..Len(stanzas) |->
                     [EmptyPackage EXCEPT
                         !.ptr = <<i, "index">>,
                         !.Metadata = clean(parseControlFile(stanzas[i], EmptyMetadata))]])

\* the file name WriteToDir gives a package
DebFilename(rp) ==
    rp.Package \o <<"_">> \o rp.Version \o <<"_">> \o rp.Architecture \o SuffixDeb

\* the loop of WriteToDir over the packages: each is serialized, parsed and
\* written under its name; orders[i] is the pair of map iteration orders of
\* the i-th serialization. The loop stops at the first package without a
\* control file and leaves what it has written.
RECURSIVE writePackages(_, _, _, _, _)
writePackages(pkgs, orders, now, files, index) ==
    IF pkgs = <<>> THEN [err |-> FALSE, files |-> files, index |-> index]
    ELSE With(WriteTo(Head(pkgs), now, Head(orders)[1], Head(orders)[2]), LAMBDA content :
         With(parseDeb(content, <<>>), LAMBDA rp0 :
         With([rp0 EXCEPT !.Filename = DebFilename(rp0)], LAMBDA rp :
             IF ~rp0.ok THEN [err |-> TRUE, files |-> files, index |-> index]
             ELSE With(MapPut(files, rp.Filename, content), LAMBDA written :
                      writePackages(Tail(pkgs), Tail(orders), now, written,
                                    index \o <<rp>>)))))

\* the armored key rings of the model: one with a private key, one with a
\* public key only, and a text that is no key ring
PrivateKeyRing == <<"P", "R", "I", "V", "A", "T", "E">>
PublicKeyRing == <<"P", "U", "B", "L", "I", "C">>
NoKeyRing == <<"?">>

\* openpgp.ReadArmoredKeyRing
ReadArmoredKeyRing(key) ==
    CASE key = PrivateKeyRing -> [err |-> FALSE, entities |-> <<[PrivateKey |-> TRUE]>>]
      [] key = PublicKeyRing -> [err |-> FALSE, entities |-> <<[PrivateKey |-> FALSE]>>]
      [] OTHER -> [err |-> TRUE, entities |-> <<>>]

\* the first entity with a private key, as signBytes and extractPublicKey
\* look for it: 0 when there is none
Signer(entities) ==
    IF \E i \in 1..Len(entities) : entities[i].PrivateKey
    THEN CHOOSE i \in 1..Len(entities) :
             entities[i].PrivateKey /\ \A j \in 1..(i - 1) : ~entities[j].PrivateKey
    ELSE 0

\* signBytes: the clearsigned message, or an error
signBytes(input, key) ==
    LET ring == ReadArmoredKeyRing(key)
    IN  IF ring.err \/ Signer(ring.entities) = 0 THEN [err |-> TRUE, out |-> <<>>]
        ELSE [err |-> FALSE, out |-> [clearsigned |-> input, key |-> key]]

\* extractPublicKey
extractPublicKey(key, armored) ==
    LET ring == ReadArmoredKeyRing(key)
    IN  IF ring.err \/ Signer(ring.entities) = 0 THEN [err |-> TRUE, out |-> <<>>]
        ELSE [err |-> FALSE, out |-> [public |-> key, armored |-> armored]]

\* the end of WriteToDir, after Release is written: with a key, InRelease
\* and the two public key files
writeSigned(r, files, releaseContent) ==
    IF r.GPGKey = <<>> THEN [err |-> FALSE, files |-> files]
    ELSE LET inRelease == signBytes(releaseContent, r.GPGKey)
             pubKey == extractPublicKey(r.GPGKey, FALSE)
             pubKeyAsc == extractPublicKey(r.GPGKey, TRUE)
             signed == MapPut(files, NameInRelease, inRelease.out)
             withGpg == IF pubKey.err THEN signed ELSE MapPut(signed, NamePublicGpg, pubKey.out)
         IN  IF inRelease.err THEN [err |-> TRUE, files |-> files]
             ELSE [err |-> FALSE,
                   files |-> IF pubKeyAsc.err THEN withGpg
                             ELSE MapPut(withGpg, NamePublicAsc, pubKeyAsc.out)]

\* Repository.WriteToDir: the files of the directory afterwards, and whether
\* it returned an error
WriteToDir(r, files, now, orders) ==
    With(writePackages(r.Packages, orders, now, files, <<>>), LAMBDA w :
    With(generatePackagesFile(w.index), LAMBDA packagesContent :
    With(Gzip(packagesContent), LAMBDA packagesGzContent :
    With(generateReleaseFile(r.ArchiveInfo, packagesContent, packagesGzContent, now),
         LAMBDA releaseContent :
        IF w.err THEN w
        ELSE With(writeSigned(r, MapPut(MapPut(MapPut(w.files, NamePackages, packagesContent),
                                               NamePackagesGz, packagesGzContent),
                                        NameRelease, releaseContent),
                              releaseContent),
                  LAMBDA signed :
                      [err |-> signed.err, index |-> w.index, files |-> signed.files])))))

\* the key NewRepositoryFromDir merges on
mergeKey(p) ==
    p.Metadata.Package \o <<"_">> \o p.Metadata.Version \o <<"_">> \o p.Metadata.Architecture

\* the loop of NewRepositoryFromDir over the directory entries, which
\* os.ReadDir returns sorted by file name
RECURSIVE readDirEntries(_, _, _, _)
readDirEntries(names, files, repo, externalPkgs) ==
    IF names = <<>> THEN [repo |-> repo, externalPkgs |-> externalPkgs]
    ELSE LET name == Head(names)
         IN  IF name = NameRelease
             THEN With([repo EXCEPT !.ArchiveInfo = parseReleaseFile(files[name], @)],
                       LAMBDA read : readDirEntries(Tail(names), files, read, externalPkgs))
             ELSE IF HasSuffix(name, SuffixDeb)
             THEN With([repo EXCEPT !.Packages =
                           @ \o <<NewPackage(files[name], <<Len(@) + 1, "dir">>)>>],
                       LAMBDA read : readDirEntries(Tail(names), files, read, externalPkgs))
             ELSE IF name = NamePackages
             THEN With(parsePackagesIndex(files[name]),
                       LAMBDA pkgs : readDirEntries(Tail(names), files, repo, pkgs))
             ELSE readDirEntries(Tail(names), files, repo, externalPkgs)

\* NewRepositoryFromDir of a directory that exists
NewRepositoryFromDir(files) ==
    With(readDirEntries(SortStrings(DOMAIN files), files,
                        [ArchiveInfo |-> EmptyArchiveInfo, Packages |-> <<>>,
                         GPGKey |-> <<>>], <<>>),
         LAMBDA read :
    With({mergeKey(read.repo.Packages[i]) : i \in 1..Len(read.repo.Packages)},
         LAMBDA existing :
             [read.repo EXCEPT !.Packages =
                 @ \o SelectSeq(read.externalPkgs, LAMBDA p : mergeKey(p) \notin existing)]))

-----------------------------------------------------------------------------
(* The manifest build: Package.Apply and Repository.Compile *)

\* strconv.ParseInt(s, 8, 64) of a short string: an optional sign, then one
\* or more octal digits
RECURSIVE OctalVal(_)
OctalVal(s) ==
    IF s = <<>> THEN 0 ELSE OctalVal(SubSeq(s, 1, Len(s) - 1)) * 8 + DigitVal(s[Len(s)])

ParseOctal(s) ==
    LET signed == s # <<>> /\ s[1] \in {"+", "-"}
        body == IF signed THEN Tail(s) ELSE s
    IN  IF body # <<>> /\ \A i \in 1..Len(body) : IsDigit(body[i]) /\ DigitVal(body[i]) < 8
        THEN [ok |-> TRUE,
              val |-> IF signed /\ s[1] = "-" THEN 0 - OctalVal(body) ELSE OctalVal(body)]
        ELSE [ok |-> FALSE, val |-> 0]

\* a package definition whose templates are plain text: the input .deb (its
\* members, or none), the metadata, and the files, scripts and control files
\* with the content of the resource each names
Definition(input, meta, injects, scripts, controlFiles) ==
    [Input |-> input, Meta |-> meta, Injects |-> injects, Scripts |-> scripts,
     ControlFiles |-> controlFiles]

\* the loop of Apply over Meta; the keys of a map are distinct and Set on
\* distinct keys commutes, so every iteration order gives this package
applyMeta(p, meta) ==
    With(SortStrings(DOMAIN meta),
         LAMBDA keys : SetAll(p, [i \in 1..Len(keys) |-> <<keys[i], meta[keys[i]]>>]))

\* the loop of Apply over Injects
RECURSIVE applyInjects(_, _)
applyInjects(st, injects) ==
    IF injects = <<>> \/ st.err THEN st
    ELSE LET f == Head(injects)
             mode == IF f.Mode # <<>> THEN ParseOctal(f.Mode) ELSE [ok |-> TRUE, val |-> 420]
         IN  IF ~mode.ok THEN [st EXCEPT !.err = TRUE]
             ELSE applyInjects(
                      [st EXCEPT !.pkg.Files =
                          @ \o <<MkFile(f.Dst, mode.val, f.Content, f.Conffile, 0)>>],
                      Tail(injects))

\* the loop of Apply over Scripts
RECURSIVE applyScripts(_, _)
applyScripts(st, scripts) ==
    IF scripts = <<>> \/ st.err THEN st
    ELSE LET dst == Head(scripts).Dst
             content == Head(scripts).Content
         IN  applyScripts(
                 CASE dst = FilePreinst -> [st EXCEPT !.pkg.Scripts.PreInst = content]
                   [] dst = FilePostinst -> [st EXCEPT !.pkg.Scripts.PostInst = content]
                   [] dst = FilePrerm -> [st EXCEPT !.pkg.Scripts.PreRm = content]
                   [] dst = FilePostrm -> [st EXCEPT !.pkg.Scripts.PostRm = content]
                   [] dst = FileConfig -> [st EXCEPT !.pkg.Scripts.Config = content]
                   [] OTHER -> [st EXCEPT !.err = TRUE],
                 Tail(scripts))

\* the loop of Apply over ControlFiles
RECURSIVE applyControlFiles(_, _)
applyControlFiles(st, controlFiles) ==
    IF controlFiles = <<>> \/ st.err THEN st
    ELSE applyControlFiles(
             [st EXCEPT !.pkg.ExtraControlFiles =
                 MapPut(@, Head(controlFiles).Dst, Head(controlFiles).Content)],
             Tail(controlFiles))

\* manifest Package.Apply on the packages of a repository: the packages
\* afterwards and whether Apply returned an error
Apply(def, pkgs, ptr) ==
    With(IF def.Input = <<>> THEN [EmptyPackage EXCEPT !.ptr = ptr]
         ELSE NewPackage(def.Input, ptr),
         LAMBDA start :
    With(applyMeta(start, def.Meta), LAMBDA withMeta :
    With(applyControlFiles(
             applyScripts(applyInjects([pkg |-> withMeta, err |-> FALSE], def.Injects),
                          def.Scripts),
             def.ControlFiles),
         LAMBDA built :
        IF built.err THEN [Packages |-> pkgs, err |-> TRUE]
        ELSE With(RepositoryAppend(pkgs, built.pkg),
                  LAMBDA r : [Packages |-> r.Packages, err |-> r.err]))))

\* manifest Repository.LoadRepository
LoadRepository(d) ==
    IF ~d.exists
    THEN [ArchiveInfo |-> [EmptyArchiveInfo EXCEPT
                              !.Origin = <<"d", "e", "b", "-", "p", "m">>,
                              !.Label = <<"M", "a", "n", "a", "g", "e", "d", " ",
                                          "R", "e", "p", "o", "s", "i", "t", "o", "r", "y">>],
          Packages |-> <<>>, GPGKey |-> <<>>]
    ELSE NewRepositoryFromDir(d.files)

\* the loop of Compile over the package definitions: it stops at the first
\* definition Apply fails on
RECURSIVE applyAll(_, _, _)
applyAll(defs, repo, i) ==
    IF defs = <<>> THEN [repo |-> repo, err |-> FALSE]
    ELSE With(Apply(Head(defs), repo.Packages, <<i, "apply">>), LAMBDA a :
             IF a.err THEN [repo |-> repo, err |-> TRUE]
             ELSE With([repo EXCEPT !.Packages = a.Packages],
                       LAMBDA applied : applyAll(Tail(defs), applied, i + 1)))

\* the repository Compile holds when it reaches SaveRepository
Compiled(defs, d) == With(LoadRepository(d), LAMBDA repo : applyAll(defs, repo, 1))

\* the map iteration orders the serializations of a save may take
RECURSIVE OrderChoices(_)
OrderChoices(pkgs) ==
    IF pkgs = <<>> THEN {<<>>}
    ELSE { <<<<k, sc>>>> \o rest :
              k \in Orders(DOMAIN Head(pkgs).Metadata.ExtraFields),
              sc \in Orders(WrittenScripts(Head(pkgs))),
              rest \in OrderChoices(Tail(pkgs)) }

\* manifest Repository.Compile: the directory afterwards and whether Compile
\* returned an error
Compile(defs, d, gpgKey, now, orders) ==
    With(Compiled(defs, d), LAMBDA c :
        IF c.err THEN [dir |-> d, err |-> TRUE]
        ELSE With(WriteToDir([c.repo EXCEPT !.GPGKey = gpgKey], d.files, now, orders),
                  LAMBDA w : [dir |-> [exists |-> TRUE, files |-> w.files], err |-> w.err]))

-----------------------------------------------------------------------------
(* Compile as a state machine: a manifest is compiled into its directory,   *)
(* and compiled again over what it wrote                                    *)

\* most definitions in a manifest, most Compile calls in a run
MaxDefs == 2
MaxRuns == 2

\* the metadata of a definition of package hi for all architectures
MetaOf(ver, desc) ==
    MapPut(MapPut(MapPut(MapPut(EmptyMap, FieldPackage, PoolName), FieldVersion, ver),
                  FieldArchitecture, PoolArch), FieldDescription, desc)

Inject(dst, mode, conffile, content) ==
    [Dst |-> dst, Mode |-> mode, Conffile |-> conffile, Content |-> content]

Resource(dst, content) == [Dst |-> dst, Content |-> content]

\* a .deb a definition patches: package hi 1 with one payload file
InputDeb ==
    WriteTo([BasePkg EXCEPT !.Files = <<MkFile(DestF, 420, B, FALSE, 0)>>], Now, <<>>, <<>>)

DefPool ==
    { Definition(<<>>, MetaOf(<<"1">>, A), <<>>, <<>>, <<>>),
      Definition(<<>>, MetaOf(<<"1">>, <<"a", "\n", "b">>), <<>>, <<>>, <<>>),
      Definition(<<>>, MetaOf(<<"2">>, A),
                 <<Inject(DestF, <<"0", "6", "4", "4">>, TRUE, B)>>,
                 <<Resource(FilePostinst, X)>>, <<Resource(Triggers, A)>>),
      Definition(<<>>, MetaOf(<<"2">>, A), <<Inject(<<"f">>, <<>>, FALSE, B)>>, <<>>, <<>>),
      Definition(<<>>, MetaOf(<<"3">>, A), <<>>, <<Resource(X, X)>>, <<>>),
      Definition(<<>>, MetaOf(<<"3">>, A), <<Inject(DestF, <<"9">>, FALSE, B)>>, <<>>, <<>>),
      Definition(InputDeb, MetaOf(<<"4">>, A), <<>>, <<>>, <<>>),
      Definition(InputDeb, MetaOf(<<"5">>, A), <<Inject(DestF, <<>>, FALSE, A)>>, <<>>, <<>>) }

Manifests == SeqsUpTo(DefPool, MaxDefs) \ {<<>>}

\* the GPG keys a build is run with: none, or one of the key rings
GPGKeys == {<<>>, PrivateKeyRing, PublicKeyRing, NoKeyRing}

InitBuild ==
    /\ manifest \in Manifests
    /\ dir = NoDir
    /\ run \in {[NoRun EXCEPT !.gpgKey = k] : k \in GPGKeys}
    /\ IdleRepo /\ IdlePkg /\ IdleBump /\ IdleApt /\ IdleTmpl /\ IdleHub /\ IdleStd

\* a.Compile(gpgKey, l): the clock has advanced by one for each earlier call
DoCompile ==
    /\ run.n < MaxRuns
    /\ \E orders \in OrderChoices(Compiled(manifest, dir).repo.Packages) :
           \E c \in {Compile(manifest, dir, run.gpgKey, Now + run.n, orders)} :
               /\ dir' = c.dir
               /\ run' = [run EXCEPT !.n = @ + 1, !.err = c.err]
    /\ UNCHANGED manifest
    /\ UNCHANGED <<repoVars, pkgVars, bumpVars, aptVars, tmplVars, hubVars, stdVars>>

NextBuild == DoCompile

SpecBuild == InitBuild /\ [][NextBuild]_vars

-----------------------------------------------------------------------------
(* Claims about the manifest build *)

\* the packages a directory holds: the triple and the digest of each .deb
DirPackages(d) ==
    { <<p.Metadata.Package, p.Metadata.Version, p.Metadata.Architecture, Digest(p)>> :
        p \in { NewPackage(d.files[name], <<0, "read">>) :
                   name \in {n \in DOMAIN d.files : HasSuffix(n, SuffixDeb)} } }

\* C5: a Compile that runs against the directory an earlier successful
\* Compile of the same manifest wrote succeeds too, and the directory holds
\* the same set of packages afterwards.
C5_CompileTwice ==
    [][(run.n >= 1 /\ ~run.err /\ run'.n = run.n + 1)
          => (~run'.err /\ DirPackages(dir') = DirPackages(dir))]_vars

-----------------------------------------------------------------------------
(* Claims about the serialized repository *)

\* the lines of a Release file below its SHA256: line
ChecksumLines(release) ==
    With(Split(release, "\n"), LAMBDA lines :
        LET heads == {i \in 1..Len(lines) : lines[i] = RelSHA256 \o <<":">>}
            first == CHOOSE i \in heads : \A j \in heads : i <= j
        IN  IF heads = {} THEN <<>>
            ELSE SelectSeq(SubSeq(lines, first + 1, Len(lines)), LAMBDA l : l # <<>>))

\* one checksum line: the hash in hex, the size in decimal and the file name
ChecksumEntry(hash, size, name) ==
    <<" ">> \o hash \o <<" ">> \o Itoa(size) \o <<" ">> \o name

C13_SigningFailureWritesNothing ==
    [][(run'.n = run.n + 1 /\ run.gpgKey # <<>> /\ signBytes(<<>>, run.gpgKey).err)
          => (run'.err /\ dir' = dir)]_vars

\* the stanza of the Packages index that a serialization of a .deb gives
IndexEntry(members) ==
    With(parseDeb(members, <<>>), LAMBDA rp : [rp EXCEPT !.Filename = DebFilename(rp)])

\* C19: serializing the same package again, at another time and with any
\* other map iteration order, gives the same entry of the Packages index:
\* the same control stanza, Filename, Size and SHA256.
C19_DeterministicIndex ==
    [][call'.op = "WriteTo" =>
          \A now \in {Now, Now + 1},
             keyOrder \in Orders(DOMAIN held.Metadata.ExtraFields),
             scriptOrder \in Orders(WrittenScripts(held)) :
              IndexEntry(WriteTo(held, now, keyOrder, scriptOrder))
                  = IndexEntry(deb'.members)]_vars

\* what the tool that built a .deb may have done that WriteTo does not: end
\* the control file with a field that has no value, continue its last field
\* on a line that starts with a tab, or name the payload entries ././path
ForeignQuirks == {"emptyField", "tabLine", "dotPath"}

\* the .deb another tool builds of package p
ForeignDeb(p, now, keyOrder, scriptOrder, quirk) ==
    LET members == WriteTo(p, now, keyOrder, scriptOrder)
        data == members[3].Body
    IN  CASE quirk = "emptyField" ->
               [members EXCEPT ![2].Body[1].Body = @ \o <<"w", ":", "\n">>]
          [] quirk = "tabLine" ->
               [members EXCEPT ![2].Body[1].Body = @ \o <<"\t", "b", "\n">>]
          [] quirk = "dotPath" ->
               [members EXCEPT ![3].Body =
                   [i \in 1..Len(data) |-> [data[i] EXCEPT !.Name = <<".", "/">> \o @]]]

\* the packages the ingested .debs are built of
IngestPool ==
    {p \in CodecPool : /\ p.ExtraControlFiles = EmptyMap
                       /\ Cardinality(DOMAIN p.Metadata.ExtraFields) <= 1
                       /\ p.Metadata.Depends = <<>>}

InitIngest ==
    /\ held \in IngestPool
    /\ deb = NoDeb /\ parsed = Nil /\ call = NoCall /\ sum = NoSum
    /\ IdleRepo /\ IdleBump /\ IdleBuild /\ IdleApt /\ IdleTmpl /\ IdleHub /\ IdleStd

\* a .deb of the held package that another tool built
DoQuirkyDeb ==
    \E keyOrder \in Orders(DOMAIN held.Metadata.ExtraFields),
       scriptOrder \in Orders(WrittenScripts(held)),
       quirk \in ForeignQuirks :
        /\ deb' = [tool |-> quirk, src |-> held, now |-> Now, keyOrder |-> keyOrder,
                   scriptOrder |-> scriptOrder,
                   size |-> buildDataArchive(held, Now).installedSize,
                   members |-> ForeignDeb(held, Now, keyOrder, scriptOrder, quirk)]
        /\ call' = [op |-> "foreign", key |-> <<>>, value |-> <<>>]
        /\ UNCHANGED <<held, parsed, sum>>
        /\ UNCHANGED <<repoVars, bumpVars, buildVars, aptVars, tmplVars, hubVars, stdVars>>

NextIngest == DoWriteTo \/ DoQuirkyDeb \/ DoNewPackage

SpecIngest == InitIngest /\ [][NextIngest]_vars

\* C20: for a .deb that NewPackage accepts, serializing the package read
\* with WriteTo and reading the result again gives the same metadata,
\* scripts, auxiliary control files, payload entries and conffile flags,
\* hence the same Digest.
C20_IngestFixedPoint ==
    [][call'.op = "NewPackage" =>
          \A keyOrder \in Orders(DOMAIN parsed'.Metadata.ExtraFields),
             scriptOrder \in Orders(WrittenScripts(parsed')) :
              LET again == NewPackage(WriteTo(parsed', Now + 1, keyOrder, scriptOrder),
                                      <<3, "again">>)
              IN  /\ SameContent(parsed', again)
                  /\ Digest(again) = Digest(parsed')]_vars

-----------------------------------------------------------------------------
(* The apt package: PackageIndex *)

\* a Package of the apt package before any field is set
EmptyAptPackage ==
    [ Name |-> <<>>, Version |-> <<>>, Architecture |-> <<>>, Control |-> <<>>,
      Filename |-> <<>>, Size |-> 0, FileHash |-> <<>>, contentHash |-> <<>> ]

\* NewPackageIndex
NewPackageIndex ==
    [ packages |-> EmptyMap, PackagesContent |-> <<>>, PackagesGzContent |-> <<>>,
      ReleaseContent |-> <<>>, InReleaseContent |-> <<>>, PublicKeyContent |-> <<>>,
      PublicKeyContentArmored |-> <<>> ]

\* the lines a bufio.Scanner gives: no empty line after a final newline
ScanLines(text) ==
    With(Split(text, "\n"), LAMBDA parts :
        IF parts[Len(parts)] = <<>> THEN SubSeq(parts, 1, Len(parts) - 1) ELSE parts)

\* the value of a line "Key: value", when the line starts with "Key: "
LineValue(line, key) == TrimSpace(TrimPrefix(line, key \o <<":", " ">>))

\* the loop of parseControlMetadata: pva is the triple found so far
RECURSIVE metadataLines(_, _)
metadataLines(lines, pva) ==
    IF lines = <<>> THEN pva
    ELSE LET line == Head(lines)
         IN  metadataLines(Tail(lines),
                 IF HasPrefix(line, FieldPackage \o <<":", " ">>)
                 THEN [pva EXCEPT ![1] = LineValue(line, FieldPackage)]
                 ELSE IF HasPrefix(line, FieldVersion \o <<":", " ">>)
                 THEN [pva EXCEPT ![2] = LineValue(line, FieldVersion)]
                 ELSE IF HasPrefix(line, FieldArchitecture \o <<":", " ">>)
                 THEN [pva EXCEPT ![3] = LineValue(line, FieldArchitecture)]
                 ELSE pva)

\* parseControlMetadata
parseControlMetadata(control) ==
    With(ScanLines(control), LAMBDA lines : metadataLines(lines, <<<<>>, <<>>, <<>>>>))

\* fmt.Sscanf(s, "%d", &n): leading spaces, then a run of digits; n keeps
\* its old value when there is none
SscanInt(s, old) ==
    LET t == TrimLeft(s)
        n == DigitRun(t)
    IN  IF n = 0 THEN old ELSE DigitsVal(SubSeq(t, 1, n))

\* the loop of parseStanza: st holds the package and the control lines
RECURSIVE stanzaLines(_, _)
stanzaLines(lines, st) ==
    IF lines = <<>> THEN st
    ELSE LET line == Head(lines)
         IN  stanzaLines(Tail(lines),
                 IF HasPrefix(line, FieldFilename \o <<":", " ">>)
                 THEN [st EXCEPT !.p.Filename = LineValue(line, FieldFilename)]
                 ELSE IF HasPrefix(line, FieldSize \o <<":", " ">>)
                 THEN [st EXCEPT !.p.Size =
                          SscanInt(TrimPrefix(line, FieldSize \o <<":", " ">>), @)]
                 ELSE IF HasPrefix(line, FieldSHA256 \o <<":", " ">>)
                 THEN [st EXCEPT !.p.FileHash = LineValue(line, FieldSHA256)]
                 ELSE [st EXCEPT !.controlLines = @ \o <<line>>])

\* parseStanza
parseStanza(stanza) ==
    With(ScanLines(stanza), LAMBDA lines :
    With(stanzaLines(lines, [p |-> EmptyAptPackage, controlLines |-> <<>>]), LAMBDA st :
    With(Join(st.controlLines, <<"\n">>) \o <<"\n">>, LAMBDA control :
    With(parseControlMetadata(control), LAMBDA pva :
        [st.p EXCEPT !.Control = control, !.Name = pva[1], !.Version = pva[2],
                     !.Architecture = pva[3]]))))

\* generateStanzaString
generateStanzaString(control, filename, sha, size) ==
    control
        \o (IF ~HasSuffix(control, <<"\n">>) THEN <<"\n">> ELSE <<>>)
        \o FieldFilename \o <<":", " ">> \o filename \o <<"\n">>
        \o FieldSize \o <<":", " ">> \o Itoa(size) \o <<"\n">>
        \o FieldSHA256 \o <<":", " ">> \o sha \o <<"\n", "\n">>

\* the key of a package in a PackageIndex
PackageKey(p) == p.Name \o <<"|">> \o p.Version \o <<"|">> \o p.Architecture

\* an Add that replaces the package stored under the key
AddReplacing(packages, p0) ==
    With(parseControlMetadata(p0.Control), LAMBDA pva :
    With(IF p0.Name = <<>> \/ p0.Version = <<>> \/ p0.Architecture = <<>>
         THEN [p0 EXCEPT !.Name = pva[1], !.Version = pva[2], !.Architecture = pva[3]]
         ELSE p0,
         LAMBDA p :
             IF p.Name = <<>> THEN [packages |-> packages, p |-> p, err |-> FALSE]
             ELSE [packages |-> MapPut(packages, PackageKey(p), p), p |-> p,
                   err |-> FALSE]))

\* PackageIndex.Add on the packages map: the map afterwards, the package as
\* Add leaves it, and whether Add returned an error
Add(packages, p0) ==
    With(parseControlMetadata(p0.Control), LAMBDA pva :
    With(IF p0.Name = <<>> \/ p0.Version = <<>> \/ p0.Architecture = <<>>
         THEN [p0 EXCEPT !.Name = pva[1], !.Version = pva[2], !.Architecture = pva[3]]
         ELSE p0,
         LAMBDA p :
             IF p.Name = <<>> THEN [packages |-> packages, p |-> p, err |-> FALSE]
             ELSE IF PackageKey(p) \in DOMAIN packages
             THEN [packages |-> packages, p |-> p, err |-> TRUE]
             ELSE [packages |-> MapPut(packages, PackageKey(p), p), p |-> p,
                   err |-> FALSE]))

\* PackageIndex.Append on the packages maps; order is the order in which the
\* range statement visits the keys of other
RECURSIVE IndexAppend(_, _, _)
IndexAppend(packages, other, order) ==
    IF order = <<>> THEN [packages |-> packages, err |-> FALSE]
    ELSE IF Head(order) \in DOMAIN packages THEN [packages |-> packages, err |-> TRUE]
    ELSE With(MapPut(packages, Head(order), other[Head(order)]),
              LAMBDA merged : IndexAppend(merged, other, Tail(order)))

-----------------------------------------------------------------------------
(* The apt package: files, downloads and the harvester *)

\* the content of a file or of a response body: a .deb with its ar members,
\* a gzip stream of a text, or plain bytes
DebFile(members) == [kind |-> "deb", members |-> members, raw |-> <<>>]
GzipFile(text) == [kind |-> "gzip", members |-> <<>>, raw |-> text]
RawFile(bytes) == [kind |-> "raw", members |-> <<>>, raw |-> bytes]

ArMagic == <<"!", "<", "a", "r", "c", "h", ">", "\n">>

\* the bytes of a file
FileBytes(f) ==
    CASE f.kind = "deb" -> ArMagic \o DebBytes(f.members)
      [] f.kind = "gzip" -> GzipBytes(Gzip(f.raw))
      [] f.kind = "raw" -> f.raw

\* the number of bytes of a file
FileSize(f) ==
    CASE f.kind = "deb" -> DebSize(f.members)
      [] f.kind = "gzip" -> GzipSize(Gzip(f.raw))
      [] f.kind = "raw" -> Len(f.raw)

\* the bodies of the ar members, one after the other
RECURSIVE MemberBodies(_)
MemberBodies(members) ==
    IF members = <<>> THEN <<>>
    ELSE LET m == Head(members)
         IN  (IF m.Name = PkgDebianBinary THEN m.Body ELSE TarBytes(m.Body))
             \o MemberBodies(Tail(members))

\* CalculateHashes of a file that exists. A file that is not an ar archive
\* and is shorter than the magic plus one header gives no body to hash; no
\* content makes it fail
CalculateHashes(f) ==
    [ fileHash |-> Sha256Hex(FileBytes(f)),
      contentHash |-> IF f.kind = "deb" THEN Sha256Hex(MemberBodies(f.members))
                      ELSE Sha256Hex(<<>>) ]

SuffixGz == <<".", "g", "z">>

\* the loop of extractControl over the ar members
RECURSIVE extractControlLoop(_)
extractControlLoop(members) ==
    IF members = <<>> THEN [control |-> <<>>, err |-> TRUE]
    ELSE LET m == Head(members)
             hits == IF HasPrefix(m.Name, PrefixControlTar)
                     THEN {j \in 1..Len(m.Body) : Base(m.Body[j].Name) = FileControl}
                     ELSE {}
         IN  IF HasPrefix(m.Name, PrefixControlTar)
                /\ ~(HasSuffix(m.Name, SuffixGz) \/ HasSuffix(m.Name, SuffixGz \o <<"/">>))
             THEN [control |-> <<>>, err |-> TRUE]
             ELSE IF hits # {}
             THEN [control |-> m.Body[CHOOSE h \in hits : \A g \in hits : h <= g].Body,
                   err |-> FALSE]
             ELSE extractControlLoop(Tail(members))

\* extractControl of a file that exists
extractControl(f) ==
    IF f.kind # "deb" THEN [control |-> <<>>, err |-> TRUE]
    ELSE extractControlLoop(f.members)

\* http.Get: a URL nothing answers for gives a transport error
NoResponse == [err |-> TRUE, StatusCode |-> 0, Body |-> RawFile(<<>>)]
Response(status, body) == [err |-> FALSE, StatusCode |-> status, Body |-> body]
HttpGet(http, url) == IF url \in DOMAIN http THEN http[url] ELSE NoResponse

SchemeHttp == <<"h", "t", "t", "p">>

\* the Package fetchPackageFrom builds
AssetPackage(url, control, fileHash, size, contentHash) ==
    With(parseControlMetadata(control), LAMBDA pva :
        [ Name |-> pva[1], Version |-> pva[2], Architecture |-> pva[3],
          Control |-> control, Filename |-> url, Size |-> size, FileHash |-> fileHash,
          contentHash |-> contentHash ])

\* fetchPackageFrom: the package, whether it returned an error, the cache
\* afterwards, and whether it sent a request
fetchPackageFrom(url, cache, http) ==
    IF url \in DOMAIN cache
    THEN [ p |-> AssetPackage(url, cache[url].Control, cache[url].FileHash,
                              cache[url].Size, cache[url].ContentHash),
           err |-> FALSE, cache |-> cache, requested |-> FALSE ]
    ELSE With(HttpGet(http, url), LAMBDA resp :
         IF resp.err
         THEN [p |-> EmptyAptPackage, err |-> TRUE, cache |-> cache, requested |-> TRUE]
         ELSE With(CalculateHashes(resp.Body), LAMBDA h :
              With(extractControl(resp.Body).control, LAMBDA control :
                  [ p |-> AssetPackage(url, control, h.fileHash, FileSize(resp.Body),
                                       h.contentHash),
                    err |-> FALSE,
                    cache |-> MapPut(cache, url,
                                     [ ContentHash |-> h.contentHash, FileHash |-> h.fileHash,
                                       Size |-> FileSize(resp.Body), Control |-> control,
                                       URL |-> url ]),
                    requested |-> TRUE ])))

\* fetchPackageIndexFromDebs: the packages map and the cache afterwards
RECURSIVE fetchPackageIndexFromDebs(_, _, _, _)
fetchPackageIndexFromDebs(urls, packages, cache, http) ==
    IF urls = <<>> THEN [packages |-> packages, cache |-> cache]
    ELSE With(fetchPackageFrom(Head(urls), cache, http), LAMBDA f :
         IF f.err THEN fetchPackageIndexFromDebs(Tail(urls), packages, f.cache, http)
         ELSE With(Add(packages, f.p), LAMBDA a :
                  fetchPackageIndexFromDebs(Tail(urls), a.packages, f.cache, http)))

\* what processRemotePackages does with one stanza: parseStanza, the file
\* name made absolute, the content hash taken from the cache, then Add
addStanza(stanza, baseURL, packages, cache) ==
    With(parseStanza(stanza), LAMBDA p :
    With(IF ~HasPrefix(p.Filename, SchemeHttp) THEN baseURL \o p.Filename ELSE p.Filename,
         LAMBDA filename :
             Add(packages,
                 [p EXCEPT !.Filename = filename,
                           !.contentHash = IF filename \in DOMAIN cache
                                           THEN cache[filename].ContentHash ELSE @])))

\* the scanner loop of processRemotePackages and the flush after it
RECURSIVE scanStanzas(_, _, _, _, _)
scanStanzas(lines, currentStanza, baseURL, packages, cache) ==
    IF lines = <<>>
    THEN IF Len(currentStanza) > 0
         THEN With(addStanza(currentStanza, baseURL, packages, cache), LAMBDA a :
                  [packages |-> a.packages, err |-> a.err])
         ELSE [packages |-> packages, err |-> FALSE]
    ELSE IF TrimSpace(Head(lines)) = <<>>
    THEN IF Len(currentStanza) > 0
         THEN With(addStanza(currentStanza, baseURL, packages, cache), LAMBDA a :
                  IF a.err THEN [packages |-> a.packages, err |-> TRUE]
                  ELSE scanStanzas(Tail(lines), <<>>, baseURL, a.packages, cache))
         ELSE scanStanzas(Tail(lines), currentStanza, baseURL, packages, cache)
    ELSE scanStanzas(Tail(lines), currentStanza \o Head(lines) \o <<"\n">>, baseURL,
                     packages, cache)

\* processRemotePackages: the packages map of idx afterwards, and whether it
\* returned an error
processRemotePackages(url, baseURL, packages, cache, http) ==
    With(HttpGet(http, url), LAMBDA resp :
        IF resp.err \/ resp.StatusCode # 200 THEN [packages |-> packages, err |-> TRUE]
        ELSE IF HasSuffix(url, SuffixGz) /\ resp.Body.kind # "gzip"
        THEN [packages |-> packages, err |-> TRUE]
        ELSE With(ScanLines(resp.Body.raw), LAMBDA lines :
                 scanStanzas(lines, <<>>, baseURL, packages, cache)))

\* the URLs FetchPackageIndexFrom builds for a repository
IndexURLs(r, baseURL) ==
    IF r.Suite = <<>> THEN <<baseURL \o NamePackagesGz>>
    ELSE [i \in 1..Len(r.Architectures) |->
             baseURL \o <<"d", "i", "s", "t", "s", "/">> \o r.Suite \o <<"/">> \o r.Component
                 \o <<"/", "b", "i", "n", "a", "r", "y", "-">> \o r.Architectures[i]
                 \o <<"/">> \o NamePackagesGz]

\* the loop of FetchPackageIndexFrom over the URLs: an error of
\* processRemotePackages is a warning
RECURSIVE processAll(_, _, _, _, _)
processAll(urls, baseURL, packages, cache, http) ==
    IF urls = <<>> THEN packages
    ELSE With(processRemotePackages(Head(urls), baseURL, packages, cache, http), LAMBDA r :
             processAll(Tail(urls), baseURL, r.packages, cache, http))

\* FetchPackageIndexFrom: the packages map of the index, and whether it
\* returned an error
FetchPackageIndexFrom(r, cache, http) ==
    LET baseURL == IF ~HasSuffix(r.URL, <<"/">>) THEN r.URL \o <<"/">> ELSE r.URL
    IN  IF r.Suite # <<>> /\ Len(r.Architectures) = 0
        THEN [packages |-> EmptyMap, err |-> TRUE]
        ELSE [ packages |-> processAll(IndexURLs(r, baseURL), baseURL, EmptyMap, cache, http),
               err |-> FALSE ]

\* one line "Key: value" of the Release file ComputeIndices prints
releaseField(key, value) == key \o <<":", " ">> \o value \o <<"\n">>

\* the Packages text of ComputeIndices; order is the order in which the range
\* statement visits the keys
RECURSIVE stanzasOf(_, _)
stanzasOf(packages, order) ==
    IF order = <<>> THEN <<>>
    ELSE LET p == packages[Head(order)]
         IN  generateStanzaString(p.Control, p.Filename, p.FileHash, p.Size)
             \o stanzasOf(packages, Tail(order))

\* PackageIndex.ComputeIndices: the index afterwards, and whether it
\* returned an error
ComputeIndices(idx, i, gpgKey, now, order) ==
    With(stanzasOf(idx.packages, order), LAMBDA packagesContent :
    With(Gzip(packagesContent), LAMBDA packagesGzContent :
    With(releaseField(RelOrigin, i.Origin) \o releaseField(RelLabel, i.Label)
             \o releaseField(RelSuite, i.Suite) \o releaseField(RelCodename, i.Codename)
             \o releaseField(RelDate, FormatTime(now))
             \o releaseField(RelArchitectures, i.Architectures)
             \o releaseField(RelComponents, i.Components)
             \o releaseField(RelDescription, i.Description)
             \o RelSHA256 \o <<":", "\n">>
             \o <<" ">> \o Sha256Hex(packagesContent) \o <<" ">>
                 \o Itoa(Len(packagesContent)) \o <<" ">> \o NamePackages \o <<"\n">>
             \o <<" ">> \o Sha256Hex(GzipBytes(packagesGzContent)) \o <<" ">>
                 \o Itoa(GzipSize(packagesGzContent)) \o <<" ">> \o NamePackagesGz
                 \o <<"\n">>,
         LAMBDA releaseContent :
    With([idx EXCEPT !.PackagesContent = packagesContent,
                     !.PackagesGzContent = packagesGzContent,
                     !.ReleaseContent = releaseContent],
         LAMBDA out :
             IF gpgKey = <<>> THEN [idx |-> out, err |-> FALSE]
             ELSE IF signBytes(releaseContent, gpgKey).err THEN [idx |-> out, err |-> TRUE]
             ELSE [ idx |-> [out EXCEPT
                               !.InReleaseContent = signBytes(releaseContent, gpgKey).out,
                               !.PublicKeyContent = extractPublicKey(gpgKey, FALSE).out,
                               !.PublicKeyContentArmored = extractPublicKey(gpgKey, TRUE).out],
                    err |-> extractPublicKey(gpgKey, FALSE).err ]))))

\* the first loop of IndexAll: each repository is fetched and appended to the
\* master index. The index IndexAll returns does not depend on the order in
\* which Append ranges over the fetched index, taken sorted here.
RECURSIVE harvestRepos(_, _, _, _)
harvestRepos(repos, packages, cache, http) ==
    IF repos = <<>> THEN [packages |-> packages, err |-> FALSE]
    ELSE With(FetchPackageIndexFrom(Head(repos), cache, http), LAMBDA f :
         IF f.err THEN harvestRepos(Tail(repos), packages, cache, http)
         ELSE With(IndexAppend(packages, f.packages, SortStrings(DOMAIN f.packages)),
                   LAMBDA a :
                       IF a.err THEN [packages |-> a.packages, err |-> TRUE]
                       ELSE harvestRepos(Tail(repos), a.packages, cache, http)))

\* the two harvesting steps of IndexAll: the master packages, the cache
\* afterwards, and the step that returned an error, if one did
harvest(repos, debURLs, cache, http) ==
    With(harvestRepos(repos, EmptyMap, cache, http), LAMBDA h :
        IF h.err THEN [packages |-> h.packages, cache |-> cache, failed |-> "repository"]
        ELSE IF Len(debURLs) = 0
        THEN [packages |-> h.packages, cache |-> cache, failed |-> "none"]
        ELSE With(fetchPackageIndexFromDebs(debURLs, EmptyMap, cache, http), LAMBDA d :
             With(IndexAppend(h.packages, d.packages, SortStrings(DOMAIN d.packages)),
                  LAMBDA a :
                      [ packages |-> a.packages, cache |-> d.cache,
                        failed |-> IF a.err THEN "artifacts" ELSE "none" ])))

\* the end of IndexAll, after the harvest h: the index it returns (isNil when
\* it returns none), the error, and the cache afterwards; order is the order
\* in which ComputeIndices ranges over the master packages
indexAllAfter(h, info, gpgKey, now, order) ==
    IF h.failed # "none"
    THEN [isNil |-> TRUE, index |-> NewPackageIndex, err |-> h.failed, cache |-> h.cache]
    ELSE With(ComputeIndices([NewPackageIndex EXCEPT !.packages = h.packages], info,
                             gpgKey, now, order),
              LAMBDA c :
                  IF c.err
                  THEN [ isNil |-> TRUE, index |-> NewPackageIndex, err |-> "indices",
                         cache |-> h.cache ]
                  ELSE [isNil |-> FALSE, index |-> c.idx, err |-> "none", cache |-> h.cache])

\* IndexAll
IndexAll(repos, debURLs, cache, info, gpgKey, http, now, order) ==
    With(harvest(repos, debURLs, cache, http), LAMBDA h :
        indexAllAfter(h, info, gpgKey, now, order))

\* Package.ContentHash: the hash, and whether it returned an error
ContentHash(p, http, disk) ==
    IF p.contentHash # <<>> THEN [hash |-> p.contentHash, err |-> FALSE]
    ELSE IF HasPrefix(p.Filename, SchemeHttp)
    THEN With(HttpGet(http, p.Filename), LAMBDA resp :
             IF resp.err \/ resp.StatusCode # 200 THEN [hash |-> <<>>, err |-> TRUE]
             ELSE [hash |-> CalculateHashes(resp.Body).contentHash, err |-> FALSE])
    ELSE IF p.Filename \notin DOMAIN disk THEN [hash |-> <<>>, err |-> TRUE]
    ELSE [hash |-> CalculateHashes(disk[p.Filename]).contentHash, err |-> FALSE]

\* ConflictFree: the package, the boolean and the error it returns, and the
\* master packages afterwards (ContentHash stores the hash it computed)
ConflictFree(path, masterPackages, http, disk) ==
    IF path \notin DOMAIN disk
    THEN [ pkg |-> EmptyAptPackage, isNil |-> TRUE, ok |-> FALSE, err |-> "invalid file",
           master |-> masterPackages ]
    ELSE IF extractControl(disk[path]).err
    THEN [ pkg |-> EmptyAptPackage, isNil |-> TRUE, ok |-> FALSE, err |-> "no control",
           master |-> masterPackages ]
    ELSE With(CalculateHashes(disk[path]), LAMBDA h :
         With(extractControl(disk[path]).control, LAMBDA control :
         With(parseControlMetadata(control), LAMBDA pva :
         With([ Name |-> pva[1], Version |-> pva[2], Architecture |-> pva[3],
                Control |-> control, Filename |-> Base(path), Size |-> FileSize(disk[path]),
                FileHash |-> h.fileHash, contentHash |-> h.contentHash ],
              LAMBDA pkg :
                  IF PackageKey(pkg) \notin DOMAIN masterPackages
                  THEN [ pkg |-> pkg, isNil |-> FALSE, ok |-> TRUE, err |-> "none",
                         master |-> masterPackages ]
                  ELSE With(ContentHash(masterPackages[PackageKey(pkg)], http, disk),
                            LAMBDA m :
                      IF m.err
                      THEN [ pkg |-> pkg, isNil |-> FALSE, ok |-> FALSE,
                             err |-> "could not verify master package",
                             master |-> masterPackages ]
                      ELSE With([masterPackages EXCEPT ![PackageKey(pkg)].contentHash = m.hash],
                                LAMBDA stored :
                           IF m.hash # h.contentHash
                           THEN [ pkg |-> pkg, isNil |-> FALSE, ok |-> FALSE,
                                  err |-> "version conflict", master |-> stored ]
                           ELSE [ pkg |-> pkg, isNil |-> FALSE, ok |-> TRUE, err |-> "none",
                                  master |-> stored ]))))))

\* github.PredictRemote
ReleaseURL ==
    <<"h", "t", "t", "p", "s", ":", "/", "/", "g", "/", "r", "/", "t", "/">>
PredictRemote(localPkg) == [localPkg EXCEPT !.Filename = ReleaseURL \o Base(@)]

\* the loop of pushDeb that validates and prunes the local files: the files
\* to upload, the disk afterwards, the local index, and whether it exited
RECURSIVE validateAndPrune(_, _, _, _, _, _)
validateAndPrune(files, masterPackages, http, disk, toUpload, localIndex) ==
    IF files = <<>>
    THEN [toUpload |-> toUpload, disk |-> disk, localIndex |-> localIndex, fatal |-> FALSE,
          master |-> masterPackages]
    ELSE With(ConflictFree(Head(files), masterPackages, http, disk), LAMBDA c :
         IF c.err = "version conflict"
         THEN [toUpload |-> toUpload, disk |-> disk, localIndex |-> localIndex,
               fatal |-> TRUE, master |-> c.master]
         ELSE IF c.err # "none"
         THEN validateAndPrune(Tail(files), c.master, http, disk, toUpload, localIndex)
         ELSE IF c.ok
         THEN validateAndPrune(Tail(files), c.master, http, MapDelete(disk, Head(files)),
                               toUpload, localIndex)
         ELSE With(Add(localIndex, PredictRemote(c.pkg)), LAMBDA a :
                  IF a.err
                  THEN [toUpload |-> toUpload \o <<Head(files)>>, disk |-> disk,
                        localIndex |-> a.packages, fatal |-> TRUE, master |-> c.master]
                  ELSE validateAndPrune(Tail(files), c.master, http, disk,
                                        toUpload \o <<Head(files)>>, a.packages)))

-----------------------------------------------------------------------------
(* The package index, the harvester and the ingress validator as state
   machines *)

\* .deb files: hi 1, hi 1 with another description, and the other versions
Deb1 == DebFile(WriteTo(BasePkg, 1, <<>>, <<>>))
Deb1Changed == DebFile(WriteTo(Set(BasePkg, FieldDescription, A), 1, <<>>, <<>>))
DebV(v) == DebFile(WriteTo(Set(BasePkg, FieldVersion, v), 1, <<>>, <<>>))
Deb2 == DebV(<<"2">>)
Deb3 == DebV(<<"3">>)

\* a response body that is no .deb
Garbage == RawFile(<<"n", "o">>)

\* the stanza a Packages index holds for a .deb
StanzaFor(f, filename) ==
    generateStanzaString(extractControl(f).control, filename, CalculateHashes(f).fileHash,
                         FileSize(f))

\* the package of a .deb as fetchPackageFrom builds it
PkgOf(f, url) ==
    AssetPackage(url, extractControl(f).control, CalculateHashes(f).fileHash, FileSize(f),
                 CalculateHashes(f).contentHash)

Url(host) == <<"h", "t", "t", "p", ":">> \o host
Deb1Name == <<"1", ".", "d", "e", "b">>
Deb2Name == <<"2", ".", "d", "e", "b">>
Deb3Name == <<"3", ".", "d", "e", "b">>

\* artifact URLs: a .deb, a 404 page, a page served with status 200, and a
\* URL nothing answers for
UrlDeb == Url(<<"d", "/">>) \o Deb2Name
Url404 == Url(<<"e", "/">>) \o Deb2Name
UrlPage == Url(<<"p", "/">>) \o Deb2Name
UrlDown == Url(<<"n", "/">>) \o Deb2Name
UrlA1 == Url(<<"a", "/">>) \o Deb1Name

\* the repositories of the configurations: flat ones, a hierarchical one
\* with two architectures, and one with a suite and no architecture
FlatRepo(url) == [URL |-> url, Suite |-> <<>>, Component |-> <<>>, Architectures |-> <<>>]
RepoA == FlatRepo(Url(<<"a", "/">>))
RepoSame == FlatRepo(Url(<<"b">>))
RepoChanged == FlatRepo(Url(<<"c">>))
RepoOther == FlatRepo(Url(<<"o", "/">>))
Repo404 == FlatRepo(Url(<<"e", "/">>))
RepoDown == FlatRepo(Url(<<"n", "/">>))
RepoH == [URL |-> Url(<<"h", "/">>), Suite |-> <<"s">>, Component |-> <<"m">>,
          Architectures |-> << <<"x">>, <<"y">> >>]
RepoNoArch == [RepoH EXCEPT !.Architectures = <<>>]

\* the responses of the network. Repository a lists hi 1 and hi 2 and serves
\* hi 1 only; RepoSame lists hi 1 as repository a has it; RepoChanged lists
\* and serves hi 1 with other content; RepoOther lists hi 3; both
\* architectures of RepoH list hi 4, whose architecture is all, and then a
\* package of their own.
Http ==
    [ u \in { UrlDeb, Url404, UrlPage, UrlA1,
              RepoA.URL \o NamePackagesGz, RepoSame.URL \o <<"/">> \o NamePackagesGz,
              RepoChanged.URL \o <<"/">> \o NamePackagesGz,
              RepoChanged.URL \o <<"/">> \o Deb1Name,
              RepoOther.URL \o NamePackagesGz, Repo404.URL \o NamePackagesGz,
              IndexURLs(RepoH, RepoH.URL)[1], IndexURLs(RepoH, RepoH.URL)[2] } |->
        CASE u = UrlDeb -> Response(200, Deb2)
          [] u = Url404 -> Response(404, Garbage)
          [] u = UrlPage -> Response(200, Garbage)
          [] u = UrlA1 -> Response(200, Deb1)
          [] u = RepoA.URL \o NamePackagesGz ->
                Response(200, GzipFile(StanzaFor(Deb1, Deb1Name) \o StanzaFor(Deb2, Deb2Name)))
          [] u = RepoSame.URL \o <<"/">> \o NamePackagesGz ->
                Response(200, GzipFile(StanzaFor(Deb1, UrlA1)))
          [] u = RepoChanged.URL \o <<"/">> \o NamePackagesGz ->
                Response(200, GzipFile(StanzaFor(Deb1Changed, Deb1Name)))
          [] u = RepoChanged.URL \o <<"/">> \o Deb1Name -> Response(200, Deb1Changed)
          [] u = RepoOther.URL \o NamePackagesGz ->
                Response(200, GzipFile(StanzaFor(Deb3, Deb3Name)))
          [] u = Repo404.URL \o NamePackagesGz -> Response(404, Garbage)
          [] u = IndexURLs(RepoH, RepoH.URL)[1] ->
                Response(200, GzipFile(StanzaFor(DebV(<<"4">>), Deb1Name)
                                       \o StanzaFor(DebV(<<"5">>), Deb2Name)))
          [] u = IndexURLs(RepoH, RepoH.URL)[2] ->
                Response(200, GzipFile(StanzaFor(DebV(<<"4">>), Deb1Name)
                                       \o StanzaFor(DebV(<<"6">>), Deb2Name))) ]

\* the local directory pushDeb publishes from
SrcDir == <<"s", "/">>
LocalDisk ==
    MapPut(MapPut(MapPut(EmptyMap, SrcDir \o Deb1Name, Deb1), SrcDir \o Deb2Name, Deb2),
           SrcDir \o Deb3Name, Garbage)

NoOutcome ==
    [ op |-> "none", arg |-> <<>>, err |-> "none", ok |-> FALSE, requested |-> FALSE,
      toUpload |-> <<>> ]

\* the packages callers add to an index: hi 1, hi 1 with other content, hi 2
\* with the name left to Add, hi 3, and a package without a control text
AptPool ==
    { PkgOf(Deb1, UrlA1), PkgOf(Deb1Changed, RepoChanged.URL \o <<"/">> \o Deb1Name),
      [PkgOf(Deb2, UrlDeb) EXCEPT !.Name = <<>>], PkgOf(Deb3, RepoOther.URL \o Deb3Name),
      [EmptyAptPackage EXCEPT !.Filename = UrlPage] }

\* the index that holds the packages ps, added in this order
RECURSIVE IndexWith(_)
IndexWith(ps) ==
    IF ps = <<>> THEN EmptyMap ELSE Add(IndexWith(SubSeq(ps, 1, Len(ps) - 1)), ps[Len(ps)]).packages

\* the indexes callers append
MaxOther == 2
OtherPool == {IndexWith(ps) : ps \in SeqsUpTo(AptPool, MaxOther)}

InitIndex ==
    /\ world = <<>> /\ cached = <<>>
    /\ master = NewPackageIndex
    /\ outcome = NoOutcome
    /\ IdleRepo /\ IdlePkg /\ IdleBump /\ IdleBuild /\ IdleTmpl /\ IdleHub /\ IdleStd

\* idx.Add(p)
DoAdd ==
    \E p \in AptPool :
        \E a \in {Add(master.packages, p)} :
            /\ master' = [master EXCEPT !.packages = a.packages]
            /\ outcome' = [NoOutcome EXCEPT !.op = "Add", !.arg = p,
                                            !.err = IF a.err THEN "duplicate" ELSE "none"]
            /\ UNCHANGED <<world, cached>>
            /\ UNCHANGED <<repoVars, pkgVars, bumpVars, buildVars, tmplVars, hubVars, stdVars>>

\* idx.Append(other)
DoIndexAppend ==
    \E other \in OtherPool :
        \E order \in Orders(DOMAIN other) :
            \E a \in {IndexAppend(master.packages, other, order)} :
                /\ master' = [master EXCEPT !.packages = a.packages]
                /\ outcome' = [NoOutcome EXCEPT !.op = "Append", !.arg = other,
                                   !.err = IF a.err THEN "duplicate" ELSE "none"]
                /\ UNCHANGED <<world, cached>>
                /\ UNCHANGED <<repoVars, pkgVars, bumpVars, buildVars, tmplVars, hubVars, stdVars>>

NextIndex == DoAdd \/ DoIndexAppend

SpecIndex == InitIndex /\ [][NextIndex]_vars

\* the configurations IndexAll runs on
Config(repos, debURLs, gpgKey) == [repos |-> repos, debURLs |-> debURLs, gpgKey |-> gpgKey]
Configs ==
    { Config(<<RepoA>>, <<>>, <<>>),
      Config(<<RepoA, RepoSame>>, <<>>, <<>>),
      Config(<<RepoA, RepoChanged>>, <<>>, <<>>),
      Config(<<RepoDown, Repo404, RepoNoArch, RepoOther>>, <<Url404, UrlDeb>>, <<>>),
      Config(<<RepoH>>, <<UrlDown, UrlPage>>, <<>>),
      Config(<<RepoChanged>>, <<>>, NoKeyRing),
      Config(<<RepoChanged>>, <<>>, <<>>) }

AptInfo ==
    [ Origin |-> A, Label |-> <<>>, Suite |-> <<>>, Codename |-> <<>>, Architectures |-> <<>>,
      Components |-> <<>>, Description |-> <<>> ]

InitApt ==
    /\ world = [http |-> Http, disk |-> LocalDisk]
    /\ cached = EmptyMap
    /\ master = NewPackageIndex
    /\ outcome = NoOutcome
    /\ IdleRepo /\ IdlePkg /\ IdleBump /\ IdleBuild /\ IdleTmpl /\ IdleHub /\ IdleStd

\* fetchPackageFrom(url, cache)
DoFetchPackageFrom ==
    \E url \in {UrlDeb, Url404, UrlPage, UrlDown} :
        \E f \in {fetchPackageFrom(url, cached, world.http)} :
            /\ cached' = f.cache
            /\ outcome' = [NoOutcome EXCEPT !.op = "fetchPackageFrom", !.arg = url,
                               !.err = IF f.err THEN "error" ELSE "none",
                               !.requested = f.requested]
            /\ UNCHANGED <<world, master>>
            /\ UNCHANGED <<repoVars, pkgVars, bumpVars, buildVars, tmplVars, hubVars, stdVars>>

\* masterIndex, err := IndexAll(repos, debURLs, cache, info, gpgKey): the
\* harvest, then the indexes over the master packages in some order
DoIndexAll ==
    \E c \in Configs :
        \E h \in {harvest(c.repos, c.debURLs, cached, world.http)} :
            \E order \in Orders(DOMAIN h.packages) :
                \E r \in {indexAllAfter(h, AptInfo, c.gpgKey, Now, order)} :
                    /\ master' = IF r.isNil THEN master ELSE r.index
                    /\ cached' = r.cache
                    /\ outcome' = [NoOutcome EXCEPT !.op = "IndexAll", !.arg = c,
                                                    !.err = r.err, !.ok = ~r.isNil]
                    /\ UNCHANGED world
                    /\ UNCHANGED <<repoVars, pkgVars, bumpVars, buildVars, tmplVars, hubVars, stdVars>>

\* pkg, skip, err := ConflictFree(path, masterIndex)
DoConflictFree ==
    \E path \in DOMAIN world.disk \cup {SrcDir \o <<"4">>} :
        \E c \in {ConflictFree(path, master.packages, world.http, world.disk)} :
            /\ master' = [master EXCEPT !.packages = c.master]
            /\ outcome' = [NoOutcome EXCEPT !.op = "ConflictFree", !.arg = path,
                                            !.err = c.err, !.ok = c.ok]
            /\ UNCHANGED <<world, cached>>
            /\ UNCHANGED <<repoVars, pkgVars, bumpVars, buildVars, tmplVars, hubVars, stdVars>>

\* the loop of pushDeb over the .deb files of the source directory, which
\* filepath.Glob returns sorted
DoPushDeb ==
    \E r \in {validateAndPrune(SortStrings(DOMAIN world.disk), master.packages, world.http,
                                 world.disk, <<>>, EmptyMap)} :
        /\ world' = [world EXCEPT !.disk = r.disk]
        /\ master' = [master EXCEPT !.packages = r.master]
        /\ outcome' = [NoOutcome EXCEPT !.op = "pushDeb", !.arg = DOMAIN world.disk,
                                        !.err = IF r.fatal THEN "fatal" ELSE "none",
                                        !.toUpload = r.toUpload]
        /\ UNCHANGED cached
        /\ UNCHANGED <<repoVars, pkgVars, bumpVars, buildVars, tmplVars, hubVars, stdVars>>

NextApt == DoFetchPackageFrom \/ DoIndexAll \/ DoConflictFree \/ DoPushDeb

SpecApt == InitApt /\ [][NextApt]_vars

-----------------------------------------------------------------------------
(* Claims about the package index, the harvester and the ingress validator *)

\* the key Add files a package under: its three fields, read from the
\* control text when one of them is empty
KeyOfAdded(p) ==
    IF p.Name = <<>> \/ p.Version = <<>> \/ p.Architecture = <<>>
    THEN With(parseControlMetadata(p.Control), LAMBDA pva :
             pva[1] \o <<"|">> \o pva[2] \o <<"|">> \o pva[3])
    ELSE p.Name \o <<"|">> \o p.Version \o <<"|">> \o p.Architecture

\* C18: Add returns an error whenever the key of its package is already in
\* the index, Append returns an error whenever the other index shares a key
\* with the receiver, and no Add or Append changes or removes the package a
\* key already maps to.
C18_UniqueKeys ==
    [][ /\ (outcome'.op = "Add" /\ KeyOfAdded(outcome'.arg) \in DOMAIN master.packages)
            => outcome'.err = "duplicate"
        /\ (outcome'.op = "Append"
                /\ DOMAIN outcome'.arg \cap DOMAIN master.packages # {})
            => outcome'.err = "duplicate"
        /\ outcome'.op \in {"Add", "Append"}
            => \A k \in DOMAIN master.packages :
                   k \in DOMAIN master'.packages
                   /\ master'.packages[k] = master.packages[k] ]_vars

\* an Add was rejected for a package whose content differs from that of the
\* package stored under its key, which is still the stored one
C18_Witness ==
    /\ outcome.op = "Add" /\ outcome.err = "duplicate"
    /\ KeyOfAdded(outcome.arg) \in DOMAIN master.packages
    /\ master.packages[KeyOfAdded(outcome.arg)].FileHash # outcome.arg.FileHash

\* the local files that are .deb files with a control text
Candidates == {f \in DOMAIN world.disk : ~extractControl(world.disk[f]).err}

\* the triple of a candidate, as a key of the reference index
CandidateKey(f) ==
    With(parseControlMetadata(extractControl(world.disk[f]).control), LAMBDA pva :
        pva[1] \o <<"|">> \o pva[2] \o <<"|">> \o pva[3])

\* the outcome the candidate f has against the reference index: fresh,
\* duplicate-identical or conflict, and unverified when the content digest of
\* the reference package cannot be had
Classify(f) ==
    IF CandidateKey(f) \notin DOMAIN master.packages THEN "fresh"
    ELSE With(ContentHash(master.packages[CandidateKey(f)], world.http, world.disk),
              LAMBDA ref :
                  IF ref.err THEN "unverified"
                  ELSE IF ref.hash = CalculateHashes(world.disk[f]).contentHash
                  THEN "duplicate-identical"
                  ELSE "conflict")

\* what the caller of ConflictFree sees for the candidate f: the boolean and
\* the error
Returned(f) ==
    With(ConflictFree(f, master.packages, world.http, world.disk), LAMBDA c : <<c.ok, c.err>>)

\* C14: two candidates with different outcomes among fresh,
\* duplicate-identical and conflict get different results from ConflictFree,
\* and the files pushDeb prunes as already published are
\* duplicate-identical candidates.
C14_IngressOutcomes ==
    [][ /\ \A f1, f2 \in Candidates :
               ( /\ Classify(f1) # "unverified" /\ Classify(f2) # "unverified"
                 /\ Classify(f1) # Classify(f2) )
               => Returned(f1) # Returned(f2)
        /\ outcome'.op = "pushDeb"
            => \A f \in DOMAIN world.disk \ DOMAIN world'.disk :
                   Classify(f) = "duplicate-identical" ]_vars

\* the URLs of the indexes of a repository that FetchPackageIndexFrom reads
SourceURLs(r) ==
    IF r.Suite # <<>> /\ Len(r.Architectures) = 0 THEN <<>>
    ELSE IndexURLs(r, IF ~HasSuffix(r.URL, <<"/">>) THEN r.URL \o <<"/">> ELSE r.URL)

\* a fetch succeeds: an answer with status 200 that is a gzip stream
FetchSucceeds(url) ==
    /\ ~HttpGet(world.http, url).err
    /\ HttpGet(world.http, url).StatusCode = 200
    /\ HttpGet(world.http, url).Body.kind = "gzip"

\* the keys of the packages an index text lists: one stanza between blank
\* lines for each
ListedKeys(text) ==
    With(SplitOn(text, <<"\n", "\n">>), LAMBDA chunks :
        { PackageKey(parseStanza(chunks[n])) :
            n \in {j \in DOMAIN chunks : TrimSpace(chunks[j]) # <<>>} })

\* the keys of the packages the successfully fetched indexes of r list
SourceKeys(r) ==
    UNION { ListedKeys(HttpGet(world.http, SourceURLs(r)[i]).Body.raw) :
              i \in {j \in DOMAIN SourceURLs(r) : FetchSucceeds(SourceURLs(r)[j])} }

\* the indexes IndexAll merges, in order: one for each repository whose
\* fetch returned no error, then the one of the artifacts
MergedIndexes(c) ==
    LET fetched == [i \in DOMAIN c.repos |-> FetchPackageIndexFrom(c.repos[i], cached, world.http)]
    IN  SelectSeq([i \in DOMAIN c.repos |-> fetched[i]], LAMBDA f : ~f.err)
        \o (IF Len(c.debURLs) = 0 THEN <<>>
            ELSE <<[ packages |-> fetchPackageIndexFromDebs(c.debURLs, EmptyMap, cached,
                                                             world.http).packages,
                     err |-> FALSE ]>>)

\* two of the merged indexes ms hold a package under the same key
SharedKeys(ms) ==
    { ijk \in UNION { {<<i, j, k>> : k \in DOMAIN ms[i].packages \cap DOMAIN ms[j].packages}
                       : i \in DOMAIN ms, j \in DOMAIN ms } :
        ijk[1] < ijk[2] }

\* C15: in IndexAll the master index holds only packages of sources that
\* were fetched, the harvest returns an error only when two merged indexes
\* share a key, and when it returns none every package listed by a
\* successfully fetched index of every repository is in the master index.
C15_BestEffortHarvest ==
    [][ outcome'.op = "IndexAll" =>
          \E c \in {outcome'.arg} : \E ms \in {MergedIndexes(outcome'.arg)} :
              /\ outcome'.err \in {"repository", "artifacts"} => SharedKeys(ms) # {}
              /\ outcome'.ok =>
                    /\ \A i \in DOMAIN c.repos :
                           SourceKeys(c.repos[i]) \subseteq DOMAIN master'.packages
                    /\ \A k \in DOMAIN master'.packages :
                           \E i \in DOMAIN ms : k \in DOMAIN ms[i].packages ]_vars

\* the content of a package record: control text, size and file hash
RecordContent(p) == <<p.Control, p.Size, p.FileHash>>

\* C16: the harvest of IndexAll returns a duplicate-key error only when two
\* of the merged indexes hold, under the same key, packages that differ in
\* content.
C16_DuplicateNeedsDifference ==
    [][ (outcome'.op = "IndexAll" /\ outcome'.err \in {"repository", "artifacts"}) =>
          \E ms \in {MergedIndexes(outcome'.arg)} :
              \E ijk \in SharedKeys(ms) :
                  RecordContent(ms[ijk[1]].packages[ijk[3]])
                      # RecordContent(ms[ijk[2]].packages[ijk[3]]) ]_vars

\* a download of the URL gives a package: an answer with status 200 whose
\* body is a .deb with a control text
Downloadable(url) ==
    /\ ~HttpGet(world.http, url).err
    /\ HttpGet(world.http, url).StatusCode = 200
    /\ ~extractControl(HttpGet(world.http, url).Body).err

\* C17: fetchPackageFrom sends a request exactly when the URL is not in the
\* cache, it leaves the entries of the cache as they are, every entry of the
\* cache is for a URL whose download gives a package, and for a URL that is
\* not in the cache and whose download gives none it returns an error.
C17_CacheFromSuccessOnly ==
    [][ outcome'.op = "fetchPackageFrom" =>
          /\ outcome'.requested <=> outcome'.arg \notin DOMAIN cached
          /\ \A u \in DOMAIN cached : u \in DOMAIN cached' /\ cached'[u] = cached[u]
          /\ \A u \in DOMAIN cached' : Downloadable(u)
          /\ (outcome'.arg \notin DOMAIN cached /\ ~Downloadable(outcome'.arg))
                => outcome'.err = "error" ]_vars

-----------------------------------------------------------------------------
(* Claims about the control file *)

\* the field names of a control file, in the order of their lines
FieldNamesOf(text) ==
    With(SelectSeq(Split(text, "\n"), LAMBDA l : l # <<>> /\ ~HasPrefix(l, <<" ">>)),
         LAMBDA lines : [i \in DOMAIN lines |-> SplitN2(lines[i])[1]])

\* the fixed order of the known fields that come before the user-defined ones
FixedOrder ==
    << FieldPackage, FieldVersion, FieldArchitecture, FieldMaintainer, FieldInstalledSize,
       FieldSection, FieldPriority, FieldHomepage, FieldEssential, FieldDepends,
       FieldPreDepends, FieldRecommends, FieldSuggests, FieldEnhances, FieldConflicts,
       FieldBreaks, FieldReplaces, FieldProvides, FieldBuiltUsing, FieldSource >>

\* the place of a field: its index in the fixed order, then the user-defined
\* fields, then Description
FieldRank(name) ==
    IF \E i \in DOMAIN FixedOrder : FixedOrder[i] = name
    THEN CHOOSE i \in DOMAIN FixedOrder : FixedOrder[i] = name
    ELSE IF name = FieldDescription THEN Len(FixedOrder) + 2
    ELSE Len(FixedOrder) + 1

\* field a is emitted before field b
EmittedBefore(a, b) ==
    \/ FieldRank(a) < FieldRank(b)
    \/ FieldRank(a) = Len(FixedOrder) + 1 /\ FieldRank(b) = Len(FixedOrder) + 1 /\ StrLess(a, b)

\* C21: the control file WriteTo emits has its fields in the fixed order, the
\* user-defined fields sorted by key between Source and Description, and
\* Essential only for an essential package.
C21_FieldOrder ==
    [][call'.op = "WriteTo" =>
          \E names \in {FieldNamesOf(ControlText(deb'.members))} :
              /\ \A i, j \in DOMAIN names : i < j => EmittedBefore(names[i], names[j])
              /\ (\E i \in DOMAIN names : names[i] = FieldEssential)
                    <=> deb'.src.Metadata.Essential]_vars

-----------------------------------------------------------------------------
(* Relationship lists *)

\* the values callers set a relationship field to: the strings of up to
\* MaxListLen characters out of a letter, the comma and the space
MaxListLen == 3
ListInputs == SeqsUpTo({"a", ",", " "}, MaxListLen)

\* the relationship fields the calls are made for, with the field of
\* Metadata each is stored in
ListKeys == {FieldDepends, FieldProvides}
ListFieldOf(key) == IF key = FieldDepends THEN "Depends" ELSE "Provides"

InitList ==
    /\ held = BasePkg
    /\ deb = NoDeb /\ parsed = Nil /\ call = NoCall /\ sum = NoSum
    /\ IdleRepo /\ IdleBump /\ IdleBuild /\ IdleApt /\ IdleTmpl /\ IdleHub /\ IdleStd

\* held.Set(key, value) for a relationship field
DoSetList ==
    \E key \in ListKeys, value \in ListInputs :
        /\ held' = Set(held, key, value)
        /\ call' = [op |-> "Set", key |-> key, value |-> value]
        /\ UNCHANGED <<deb, parsed, sum>>
        /\ UNCHANGED <<repoVars, bumpVars, buildVars, aptVars, tmplVars, hubVars, stdVars>>

NextList == DoSetList

SpecList == InitList /\ [][NextList]_vars

\* C22: the list Set stores for a relationship field holds the trimmed
\* elements of the value between its commas, without the empty ones, so it
\* never holds an empty string, and it is empty for an empty value.
C22_NoEmptyElements ==
    [][call'.op = "Set" =>
          \E list \in {held'.Metadata[ListFieldOf(call'.key)]} :
              /\ \A i \in DOMAIN list : list[i] # <<>>
              /\ list = SelectSeq([i \in DOMAIN Split(call'.value, ",") |->
                                      TrimSpace(Split(call'.value, ",")[i])],
                                  LAMBDA e : e # <<>>)
              /\ call'.value = <<>> => list = <<>>]_vars

-----------------------------------------------------------------------------
(* Claims about conffiles *)

\* the conffiles members of the control archive of a .deb
ConffilesMembers(members) ==
    SelectSeq(members[2].Body, LAMBDA th : Base(th.Name) = FileConffiles)

\* the destinations a .deb lists in its conffiles member
ListedConffiles(members) ==
    With(ConffilesMembers(members),
         LAMBDA cm : IF cm = <<>> THEN {}
                     ELSE With(Split(TrimSpace(cm[1].Body), "\n"),
                               LAMBDA ls : {ls[i] : i \in DOMAIN ls} \ {<<>>}))

-----------------------------------------------------------------------------
(* PackagesByUpstream *)

\* Package.UpstreamVersion: the version up to its last hyphen
UpstreamVersion(p) ==
    With(p.Metadata.Version,
         LAMBDA v : IF LastIndexOf(v, "-") = 0 THEN v
                    ELSE SubSeq(v, 1, LastIndexOf(v, "-") - 1))

\* splitVersion: the version up to its last hyphen, and what follows it
splitVersion(v) ==
    IF LastIndexOf(v, "-") = 0 THEN <<v, <<>>>>
    ELSE <<SubSeq(v, 1, LastIndexOf(v, "-") - 1),
           SubSeq(v, LastIndexOf(v, "-") + 1, Len(v))>>

\* compareVersions: revisions as integers when both parse, as strings if not
compareVersions(v1, v2) ==
    LET r1 == splitVersion(v1)[2]
        r2 == splitVersion(v2)[2]
    IN  IF Atoi(r1).ok /\ Atoi(r2).ok THEN Atoi(r1).val < Atoi(r2).val
        ELSE StrLess(r1, r2)

\* the less function PackagesByUpstream hands to sort.Slice: the element at i
\* goes first when the version at j compares below it
sortLess(x, y) == compareVersions(y.Metadata.Version, x.Metadata.Version)

\* the inner loop of the insertion sort: data[j] moves down while it is less
\* than its left neighbour
RECURSIVE insertDown(_, _)
insertDown(data, j) ==
    IF j > 1 /\ sortLess(data[j], data[j - 1])
    THEN insertDown([data EXCEPT ![j] = data[j - 1], ![j - 1] = data[j]], j - 1)
    ELSE data

\* sort.Slice on a slice of at most twelve elements: an insertion sort
RECURSIVE insertionSort(_, _)
insertionSort(data, i) ==
    IF i > Len(data) THEN data
    ELSE insertionSort(insertDown(data, i), i + 1)

\* Repository.PackagesByUpstream
PackagesByUpstream(pkgs, name, upstreamVersion, arch) ==
    insertionSort(
        SelectSeq(pkgs, LAMBDA p : /\ p.Metadata.Package = name
                                   /\ p.Metadata.Architecture = arch
                                   /\ UpstreamVersion(p) = upstreamVersion),
        2)

\* most packages of a repository
MaxRepo == 3

\* the upstream versions and the revisions of the packages of a repository
RepoUpstreams == {<<"1">>, <<"2">>}
RepoRevisions == {<<"9">>, <<"1", "0">>, <<"1", "a">>}
RepoArchs == {PoolArch, <<"a", "l", "l">>}

RevPool ==
    { SetAll([EmptyPackage EXCEPT !.ptr = <<1, StrCat(v)>>],
             << <<FieldPackage, PoolName>>, <<FieldVersion, v>>,
                <<FieldArchitecture, PoolArch>> >>)
      : v \in {u \o <<"-">> \o r : u \in RepoUpstreams, r \in RepoRevisions}
              \cup {<<"1">>} }
    \cup { SetAll([EmptyPackage EXCEPT !.ptr = <<1, "other">>],
                  << <<FieldPackage, PoolName>>, <<FieldVersion, <<"1", "-", "9">>>>,
                     <<FieldArchitecture, <<"a", "l", "l">>>> >>) }

InitUpstream ==
    /\ Packages = <<>> /\ ret = NoRet
    /\ IdlePkg /\ IdleBump /\ IdleBuild /\ IdleApt /\ IdleTmpl /\ IdleHub /\ IdleStd

\* Append(p) of a package with a revision
DoAppendRev ==
    \E p \in RevPool :
        /\ Len(Packages) < MaxRepo
        /\ Packages' = RepositoryAppend(Packages, p).Packages
        /\ ret' = NoRet
        /\ UNCHANGED <<pkgVars, bumpVars, buildVars, aptVars, tmplVars, hubVars, stdVars>>

\* PackagesByUpstream(name, upstream, arch)
DoPackagesByUpstream ==
    \E upstream \in RepoUpstreams, arch \in RepoArchs :
        /\ ret' = [op |-> "PackagesByUpstream", arg |-> Nil, existing |-> Nil,
                   err |-> FALSE, upstream |-> upstream, arch |-> arch,
                   matches |-> PackagesByUpstream(Packages, PoolName, upstream, arch)]
        /\ UNCHANGED Packages
        /\ UNCHANGED <<pkgVars, bumpVars, buildVars, aptVars, tmplVars, hubVars, stdVars>>

NextUpstream == DoAppendRev \/ DoPackagesByUpstream

SpecUpstream == InitUpstream /\ [][NextUpstream]_vars

\* the packages of the repository that a call is to return
Matching(pkgs, name, upstream, arch) ==
    { pkgs[i] : i \in { k \in DOMAIN pkgs : /\ pkgs[k].Metadata.Package = name
                                            /\ pkgs[k].Metadata.Architecture = arch
                                            /\ DebUpstream(pkgs[k].Metadata.Version) = upstream } }

\* cmp is irreflexive, transitive and decides every two distinct versions of vs
StrictTotalOrder(vs, cmp(_, _)) ==
    /\ \A a \in vs : ~cmp(a, a)
    /\ \A a, b \in vs : a # b => (cmp(a, b) <=> ~cmp(b, a))
    /\ \A a, b, c \in vs : (cmp(a, b) /\ cmp(b, c)) => cmp(a, c)

\* C24: PackagesByUpstream returns exactly the packages with the name, the
\* architecture and the upstream version asked for, each once, most recent
\* first by Debian version ordering, and the comparison it sorts with is a
\* strict total order on the versions returned.
C24_SortedByDebianVersion ==
    [][ret'.op = "PackagesByUpstream" =>
          \E ms \in {ret'.matches} :
              /\ {ms[i] : i \in DOMAIN ms} = Matching(Packages, PoolName, ret'.upstream, ret'.arch)
              /\ \A i, j \in DOMAIN ms : i < j =>
                     /\ ms[i] # ms[j]
                     /\ DebianCompare(ms[i].Metadata.Version, ms[j].Metadata.Version) >= 0
              /\ StrictTotalOrder({ms[i].Metadata.Version : i \in DOMAIN ms}, compareVersions)
      ]_vars

-----------------------------------------------------------------------------
(* The template engine *)

\* A template is the list of nodes text/template parses it into: text, the
\* action {{ .key }} and the block {{ with .key }}{{ . }}{{ end }}. A string
\* without "{{" is a list of text nodes only.
TextNode(s) == [kind |-> "TextNode", key |-> s]
FieldNode(k) == [kind |-> "ActionNode", key |-> k]
WithNode(k) == [kind |-> "WithNode", key |-> k]

\* strings.Contains(text, "{{")
HasAction(text) == \E i \in DOMAIN text : text[i].kind # "TextNode"

\* t.Execute with missingkey=error: the value of every node, or the error of
\* a key that the map does not have
RECURSIVE execute(_, _)
execute(text, defs) ==
    IF text = <<>> THEN [val |-> <<>>, err |-> "none"]
    ELSE IF Head(text).kind = "TextNode"
    THEN With(execute(Tail(text), defs),
              LAMBDA rest : [rest EXCEPT !.val = <<Head(text)>> \o @])
    ELSE IF Head(text).key \notin DOMAIN defs
    THEN [val |-> <<>>, err |-> "executing"]
    ELSE With(execute(Tail(text), defs),
              LAMBDA rest : [rest EXCEPT !.val = defs[Head(text).key] \o @])

\* templateEngine.renderWith
renderWith(text, defs) ==
    IF ~HasAction(text) THEN [val |-> text, err |-> "none"] ELSE execute(text, defs)

\* the walk of sortLocals over the parse tree: the first identifier of every
\* field node under the list, action, pipe and command nodes
walk(text) ==
    SelectSeq([i \in DOMAIN text |-> IF text[i].kind = "ActionNode" THEN text[i].key ELSE <<>>],
              LAMBDA k : k # <<>>)

\* the dependencies sortLocals records for the key k: the walked identifiers
\* that are keys of locals other than k, once each, sorted
depsOf(locals, k) ==
    IF ~HasAction(locals[k]) THEN <<>>
    ELSE With(walk(locals[k]),
              LAMBDA ws : SortStrings({ws[i] : i \in DOMAIN ws} \cap (DOMAIN locals \ {k})))

\* the closure visit of sortLocals, with the loop over deps[n]; st holds
\* result, visited, visiting and the error
RECURSIVE visit(_, _, _)
RECURSIVE visitDeps(_, _, _)
visit(locals, st, n) ==
    IF n \in st.visiting THEN [st EXCEPT !.err = "cycle"]
    ELSE IF n \in st.visited THEN st
    ELSE With(visitDeps(locals, [st EXCEPT !.visiting = @ \cup {n}], depsOf(locals, n)),
              LAMBDA after :
                  IF after.err # "none" THEN after
                  ELSE [after EXCEPT !.visiting = @ \ {n}, !.visited = @ \cup {n},
                                     !.result = @ \o <<n>>])
visitDeps(locals, st, ds) ==
    IF ds = <<>> \/ st.err # "none" THEN st
    ELSE visitDeps(locals, visit(locals, st, Head(ds)), Tail(ds))

RECURSIVE visitAll(_, _, _)
visitAll(locals, st, keys) ==
    IF keys = <<>> \/ st.err # "none" THEN st
    ELSE visitAll(locals, visit(locals, st, Head(keys)), Tail(keys))

\* sortLocals: the keys in the order they are to be rendered, or the error
sortLocals(locals) ==
    With(visitAll(locals, [result |-> <<>>, visited |-> {}, visiting |-> {}, err |-> "none"],
                  SortStrings(DOMAIN locals)),
         LAMBDA st : [result |-> st.result, err |-> st.err])

\* the loop of newTemplateEngine and of sub over the sorted defines
RECURSIVE renderAll(_, _, _)
renderAll(locals, keys, defs) ==
    IF keys = <<>> THEN [defines |-> defs, err |-> "none"]
    ELSE With(renderWith(locals[Head(keys)], defs),
              LAMBDA r : IF r.err # "none" THEN [defines |-> EmptyMap, err |-> r.err]
                         ELSE renderAll(locals, Tail(keys), MapPut(defs, Head(keys), r.val)))

\* templateEngine.sub; newTemplateEngine is sub of no definitions
sub(parent, locals) ==
    With(sortLocals(locals),
         LAMBDA sorted : IF sorted.err # "none"
                         THEN [defines |-> EmptyMap, err |-> sorted.err, order |-> <<>>]
                         ELSE With(renderAll(locals, sorted.result, parent),
                                   LAMBDA r : [defines |-> r.defines, err |-> r.err,
                                               order |-> sorted.result]))

newTemplateEngine(defs) == sub(EmptyMap, defs)

\* most defines of one map
MaxDefines == 2

TmplKeys == {A, B, <<"c">>}

\* the values of the defines: plain text, a reference followed by text, a
\* reference inside a with block
TmplValues ==
    {<<TextNode(X)>>}
    \cup {<<FieldNode(k), TextNode(<<"1">>)>> : k \in TmplKeys}
    \cup {<<WithNode(k)>> : k \in TmplKeys}

DefinesPool ==
    UNION { [ks -> TmplValues] : ks \in {t \in SUBSET TmplKeys : Cardinality(t) <= MaxDefines} }

InitTmpl ==
    /\ defines \in DefinesPool
    /\ engine = <<>>
    /\ IdleRepo /\ IdlePkg /\ IdleBump /\ IdleBuild /\ IdleApt /\ IdleHub /\ IdleStd

\* newTemplateEngine(archive.Defines)
DoNewTemplateEngine ==
    /\ engine' = With(newTemplateEngine(defines),
                      LAMBDA e : [op |-> "newTemplateEngine", parent |-> EmptyMap,
                                  locals |-> defines, defines |-> e.defines,
                                  err |-> e.err, order |-> e.order])
    /\ UNCHANGED <<defines, hubVars>>
    /\ UNCHANGED <<repoVars, pkgVars, bumpVars, buildVars, aptVars, stdVars>>

\* a.engine.sub(pkg.Defines) on the engine of the archive
DoSub ==
    /\ engine # <<>> /\ engine.op = "newTemplateEngine" /\ engine.err = "none"
    /\ \E locals \in DefinesPool :
           engine' = With(sub(engine.defines, locals),
                          LAMBDA e : [op |-> "sub", parent |-> engine.defines,
                                      locals |-> locals, defines |-> e.defines,
                                      err |-> e.err, order |-> e.order])
    /\ UNCHANGED <<defines, hubVars>>
    /\ UNCHANGED <<repoVars, pkgVars, bumpVars, buildVars, aptVars, stdVars>>

NextTmpl == DoNewTemplateEngine \/ DoSub

SpecTmpl == InitTmpl /\ [][NextTmpl]_vars

\* the keys a template refers to
Refs(text) == {text[i].key : i \in {j \in DOMAIN text : text[j].kind # "TextNode"}}

\* k refers to d, one of the defines handed in with it; a define that refers
\* to its own key refers to itself unless the parent engine has that key
RefersTo(locals, parent, k, d) ==
    /\ d \in Refs(locals[k]) \cap DOMAIN locals
    /\ d = k => k \notin DOMAIN parent

\* d is reached from k in at most n references, at least one
RECURSIVE Reaches(_, _, _, _, _)
Reaches(locals, parent, k, d, n) ==
    /\ n > 0
    /\ \/ RefersTo(locals, parent, k, d)
       \/ \E m \in DOMAIN locals :
              RefersTo(locals, parent, k, m) /\ Reaches(locals, parent, m, d, n - 1)

RefCycle(locals, parent) ==
    \E k \in DOMAIN locals : Reaches(locals, parent, k, k, Cardinality(DOMAIN locals))

\* the value of the define k with every reference replaced by the value of
\* the define it names; defined when the references have no cycle
RECURSIVE Expand(_, _, _)
ExpandNodes(locals, parent, k, text) ==
    Concat([i \in DOMAIN text |->
               IF text[i].kind = "TextNode" THEN <<text[i]>>
               ELSE IF text[i].key \in DOMAIN locals /\ RefersTo(locals, parent, k, text[i].key)
               THEN Expand(locals, parent, text[i].key)
               ELSE parent[text[i].key]])
Expand(locals, parent, k) == ExpandNodes(locals, parent, k, locals[k])

PositionOf(order, k) == CHOOSE i \in DOMAIN order : order[i] = k

\* C25: building an engine renders every define after the other defines it
\* refers to, whatever the keys are, so every final value is the define's text
\* with each reference replaced by the final value it names; and when the
\* references between the defines form a cycle the construction fails with
\* the cycle error.
C25_DefinesInDependencyOrder ==
    [][\E e \in {engine'} :
          /\ RefCycle(e.locals, e.parent) => e.err = "cycle"
          /\ (/\ ~RefCycle(e.locals, e.parent)
              /\ \A k \in DOMAIN e.locals :
                     Refs(e.locals[k]) \subseteq DOMAIN e.locals \cup DOMAIN e.parent)
             => /\ e.err = "none"
                /\ \A k \in DOMAIN e.locals :
                       /\ e.defines[k] = Expand(e.locals, e.parent, k)
                       /\ \A d \in DOMAIN e.locals :
                              (d # k /\ RefersTo(e.locals, e.parent, k, d))
                                  => PositionOf(e.order, d) < PositionOf(e.order, k)
      ]_vars

-----------------------------------------------------------------------------
(* Release assets on the hosting provider *)

\* the releases of the repository o/r, the content of every asset by ID and
\* the ID the next asset gets
Asset(id, name) == [ID |-> id, Name |-> name]
Release(id, tag, assets) == [ID |-> id, TagName |-> tag, Assets |-> assets]

\* GET /repos/o/r/releases/tags/:tag
getReleaseByTag(h, tag) ==
    With(SelectSeq(h.releases, LAMBDA rel : rel.TagName = tag),
         LAMBDA found : IF found # <<>> THEN [StatusCode |-> 200, rel |-> found[1]]
                        ELSE [StatusCode |-> 404, rel |-> Release(0, <<>>, <<>>)])

\* DELETE /repos/o/r/releases/assets/:id
deleteAsset(h, assetID) ==
    IF \E r \in DOMAIN h.releases : \E a \in DOMAIN h.releases[r].Assets :
           h.releases[r].Assets[a].ID = assetID
    THEN [StatusCode |-> 204,
          hub |-> [h EXCEPT !.releases =
                      [r \in DOMAIN @ |->
                          [@[r] EXCEPT !.Assets = SelectSeq(@, LAMBDA a : a.ID # assetID)]]]]
    ELSE [StatusCode |-> 404, hub |-> h]

\* url.Values.Get of the name parameter of the upload URL, which the client
\* writes unescaped: a plus sign in a query string is a space
QueryName(fileName) == [i \in DOMAIN fileName |-> IF fileName[i] = "+" THEN " " ELSE fileName[i]]

\* POST /repos/o/r/releases/:id/assets?name=:name
hostUploadAsset(h, releaseID, name, body) ==
    IF \E r \in DOMAIN h.releases : h.releases[r].ID = releaseID
    THEN [StatusCode |-> 201,
          hub |-> [h EXCEPT
                      !.releases = [r \in DOMAIN @ |->
                                       IF @[r].ID = releaseID
                                       THEN [@[r] EXCEPT !.Assets = @ \o <<Asset(h.nextAssetID, name)>>]
                                       ELSE @[r]],
                      !.assetsContent = MapPut(@, h.nextAssetID, body),
                      !.nextAssetID = @ + 1]]
    ELSE [StatusCode |-> 404, hub |-> h]

\* step 2 of uploadAssetFromReader: the first asset of the release with the
\* file's name is deleted; the response is not looked at
deleteExisting(h, rel, fileName) ==
    With(SelectSeq(rel.Assets, LAMBDA a : a.Name = fileName),
         LAMBDA same : IF same = <<>> THEN [hub |-> h, requests |-> <<>>]
                       ELSE [hub |-> deleteAsset(h, same[1].ID).hub,
                             requests |-> <<[Method |-> "DELETE", id |-> same[1].ID]>>])

\* uploadAssetFromReader: the host afterwards, the error and the requests sent
uploadAssetFromReader(h, repoSlug, tag, fileName, content) ==
    IF Len(Split(repoSlug, "/")) # 2
    THEN [hub |-> h, err |-> "invalid repo slug", requests |-> <<>>]
    ELSE With(getReleaseByTag(h, tag),
              LAMBDA resp :
                  IF resp.StatusCode # 200
                  THEN [hub |-> h, err |-> "release not found",
                        requests |-> <<[Method |-> "GET", id |-> 0]>>]
                  ELSE With(deleteExisting(h, resp.rel, fileName),
                            LAMBDA del :
                                With(hostUploadAsset(del.hub, resp.rel.ID, QueryName(fileName),
                                                     content),
                                     LAMBDA up :
                                         [hub |-> up.hub,
                                          err |-> IF up.StatusCode # 201 THEN "upload failed"
                                                  ELSE "none",
                                          requests |-> <<[Method |-> "GET", id |-> 0]>>
                                                       \o del.requests
                                                       \o <<[Method |-> "POST",
                                                             id |-> resp.rel.ID]>>])))

\* most uploads of one run
MaxUploads == 3

FirstAssetID == 1000
TagBin == <<"v", "1">>
TagIndex == <<"i", "n", "d", "e", "x">>
TagNone == <<"v", "2">>
SlugOk == <<"o", "/", "r">>
AssetNames == {<<"t", ".", "d", "e", "b">>, <<"t", "_", "1", "+", "b", ".", "d", "e", "b">>}

\* the host of TestPushDeb: a release for the binaries that may hold an old
\* asset, and a release for the indices
InitHub ==
    /\ \E old \in {<<>>} \cup {<<Asset(555, n)>> : n \in AssetNames} :
           hub = [releases |-> <<Release(1, TagBin, old), Release(2, TagIndex, <<>>)>>,
                  assetsContent |-> IF old = <<>> THEN [k \in {} |-> <<>>]
                                    ELSE [k \in {555} |-> X],
                  nextAssetID |-> FirstAssetID]
    /\ upload = <<>>
    /\ IdleRepo /\ IdlePkg /\ IdleBump /\ IdleBuild /\ IdleApt /\ IdleTmpl /\ IdleStd

\* uploadAssetFromReader(repoSlug, tag, fileName, content, size, token)
DoUploadAsset ==
    \E repoSlug \in {SlugOk, <<"o">>}, tag \in {TagBin, TagIndex, TagNone},
       fileName \in AssetNames, content \in {A, B} :
        /\ hub.nextAssetID < FirstAssetID + MaxUploads
        /\ \E r \in {uploadAssetFromReader(hub, repoSlug, tag, fileName, content)} :
               /\ hub' = r.hub
               /\ upload' = [repoSlug |-> repoSlug, tag |-> tag, fileName |-> fileName,
                             content |-> content, err |-> r.err, requests |-> r.requests]
        /\ UNCHANGED tmplVars
        /\ UNCHANGED <<repoVars, pkgVars, bumpVars, buildVars, aptVars, stdVars>>

NextHub == DoUploadAsset

SpecHub == InitHub /\ [][NextHub]_vars

\* the assets named name that the release tagged tag holds
AssetsNamed(h, tag, name) ==
    With(SelectSeq(h.releases, LAMBDA rel : rel.TagName = tag),
         LAMBDA found : IF found = <<>> THEN <<>>
                        ELSE SelectSeq(found[1].Assets, LAMBDA a : a.Name = name))

\* C26: an upload first asks for the release by its tag, then deletes the
\* asset of the same name that the release holds, by its ID, and then
\* uploads; after a call that succeeded the release holds exactly one asset
\* of that name, with the bytes of this call; when the tag is not resolved
\* the request for it is the only one sent.
C26_DeleteThenUpload ==
    [][\E u \in {upload'} :
          /\ u.requests # <<>> => u.requests[1].Method = "GET"
          /\ \A i \in DOMAIN u.requests : i > 1 =>
                 /\ getReleaseByTag(hub, u.tag).StatusCode = 200
                 /\ u.requests[i].Method = "DELETE" =>
                        /\ i = 2 /\ Len(u.requests) = 3
                        /\ \E old \in {AssetsNamed(hub, u.tag, u.fileName)} :
                               old # <<>> /\ u.requests[i].id = old[1].ID
                 /\ u.requests[i].Method = "POST" => i = Len(u.requests)
          /\ (AssetsNamed(hub, u.tag, u.fileName) # <<>> /\ u.err = "none")
                 => Len(u.requests) = 3 /\ u.requests[2].Method = "DELETE"
          /\ u.err = "none" =>
                 \E now \in {AssetsNamed(hub', u.tag, u.fileName)} :
                     /\ Len(now) = 1
                     /\ hub'.assetsContent[now[1].ID] = u.content
      ]_vars

-----------------------------------------------------------------------------
(* StandardRepository: the hierarchical layout *)

DirPool == <<"p", "o", "o", "l">>
DirDists == <<"d", "i", "s", "t", "s">>
DirBinary == <<"b", "i", "n", "a", "r", "y", "-">>
Unknown == <<"u", "n", "k", "n", "o", "w", "n">>
Slash == <<"/">>

\* the addFile closure: one more entry of the tarball
addFile(tar, name, content) == tar \o <<[Name |-> name, Body |-> content]>>

\* the path of a package in the pool
PoolPath(comp, rp) ==
    DirPool \o Slash \o comp \o Slash \o (IF rp.Package = <<>> THEN Unknown ELSE rp.Package)
        \o Slash \o DebFilename(rp)

\* the loop of StandardRepository.WriteTo over the packages of one part; sers
\* gives for each serialization its clock reading and the two map iteration
\* orders; st holds the tarball, the pool paths written and the index
RECURSIVE writePartPackages(_, _, _, _)
writePartPackages(pkgs, sers, comp, st) ==
    IF pkgs = <<>> THEN st
    ELSE With(WriteTo(Head(pkgs), Head(sers)[1], Head(sers)[2], Head(sers)[3]), LAMBDA content :
         With(parseDeb(content, <<>>), LAMBDA rp0 :
             IF ~rp0.ok THEN [st EXCEPT !.err = TRUE]
             ELSE With(PoolPath(comp, rp0), LAMBDA poolPath :
                  writePartPackages(Tail(pkgs), Tail(sers), comp,
                      [st EXCEPT
                          !.tar = IF poolPath \in st.poolFiles THEN @
                                  ELSE addFile(@, poolPath, content),
                          !.poolFiles = @ \cup {poolPath},
                          !.index = @ \o <<[rp0 EXCEPT !.Filename = poolPath]>>]))))

\* sort.Slice of the release entries by path
RECURSIVE sortByPath(_)
sortByPath(entries) ==
    IF entries = <<>> THEN <<>>
    ELSE With(CHOOSE i \in DOMAIN entries :
                  \A j \in DOMAIN entries : ~StrLess(entries[j].Path, entries[i].Path),
              LAMBDA least : <<entries[least]>>
                             \o sortByPath([k \in 1..(Len(entries) - 1) |->
                                               IF k < least THEN entries[k] ELSE entries[k + 1]]))

\* generateHierarchicalRelease
generateHierarchicalRelease(info, entries, now) ==
    writeField(RelOrigin, info.Origin)
        \o writeField(RelLabel, info.Label)
        \o writeField(RelSuite, info.Suite)
        \o writeField(RelVersion, info.Version)
        \o writeField(RelCodename, info.Codename)
        \o writeField(RelDate, IF info.Date # <<>> THEN info.Date ELSE FormatTime(now))
        \o writeField(RelValidUntil, info.ValidUntil)
        \o writeField(RelArchitectures, info.Architectures)
        \o writeField(RelComponents, info.Components)
        \o writeField(RelDescription, info.Description)
        \o writeField(RelNotAutomatic, info.NotAutomatic)
        \o writeField(RelButAutomaticUpgrades, info.ButAutomaticUpgrades)
        \o writeField(RelAcquireByHash, info.AcquireByHash)
        \o RelSHA256 \o <<":", "\n">>
        \o With(sortByPath(entries),
                LAMBDA sorted : Concat([i \in DOMAIN sorted |->
                                  <<" ">> \o sorted[i].Hash \o <<" ">> \o Itoa(sorted[i].Size)
                                      \o <<" ">> \o sorted[i].Path \o <<"\n">>]))

\* the loop of StandardRepository.WriteTo over the parts
RECURSIVE writeParts(_, _, _, _)
writeParts(parts, sers, codename, st) ==
    IF parts = <<>> \/ st.err THEN st
    ELSE LET part == Head(parts)
             comp == part.ArchiveInfo.Components
             arch == part.ArchiveInfo.Architectures
             relDir == comp \o Slash \o DirBinary \o arch
             distDir == DirDists \o Slash \o codename \o Slash \o relDir \o Slash
         IN  IF comp = <<>> \/ arch = <<>> THEN [st EXCEPT !.err = TRUE]
             ELSE With(writePartPackages(part.Packages, Head(sers), comp,
                                         [st EXCEPT !.index = <<>>]),
                       LAMBDA w :
                  With(generatePackagesFile(w.index), LAMBDA packagesContent :
                  With(Gzip(packagesContent), LAMBDA packagesGzContent :
                      IF w.err THEN w
                      ELSE writeParts(Tail(parts), Tail(sers), codename,
                               [w EXCEPT
                                   !.tar = addFile(addFile(@, distDir \o NamePackages,
                                                           packagesContent),
                                                   distDir \o NamePackagesGz, packagesGzContent),
                                   !.releaseEntries = @ \o
                                       << [Path |-> relDir \o Slash \o NamePackages,
                                           Size |-> Len(packagesContent),
                                           Hash |-> Sha256Hex(packagesContent)],
                                          [Path |-> relDir \o Slash \o NamePackagesGz,
                                           Size |-> GzipSize(packagesGzContent),
                                           Hash |-> Sha256Hex(GzipBytes(packagesGzContent))] >>]))))

\* StandardRepository.WriteTo: the entries written to the tarball and
\* whether an error is returned
StandardWriteTo(r, sers, now) ==
    With(writeParts(r.Parts, sers, r.ArchiveInfo.Codename,
                    [err |-> FALSE, tar |-> <<>>, poolFiles |-> {}, index |-> <<>>,
                     releaseEntries |-> <<>>]),
         LAMBDA w :
             IF w.err THEN [err |-> TRUE, tar |-> w.tar]
             ELSE With(generateHierarchicalRelease(r.ArchiveInfo, w.releaseEntries, now),
                       LAMBDA releaseContent :
                  With(addFile(w.tar, DirDists \o Slash \o r.ArchiveInfo.Codename \o Slash
                                          \o NameRelease, releaseContent),
                       LAMBDA tar :
                      IF r.GPGKey = <<>> THEN [err |-> FALSE, tar |-> tar]
                      ELSE LET inRelease == signBytes(releaseContent, r.GPGKey)
                               pubKey == extractPublicKey(r.GPGKey, FALSE)
                               pubKeyAsc == extractPublicKey(r.GPGKey, TRUE)
                               signed == addFile(tar, DirDists \o Slash \o r.ArchiveInfo.Codename
                                                          \o Slash \o NameInRelease, inRelease.out)
                               withGpg == IF pubKey.err THEN signed
                                          ELSE addFile(signed, NamePublicGpg, pubKey.out)
                           IN  IF inRelease.err THEN [err |-> TRUE, tar |-> tar]
                               ELSE [err |-> FALSE,
                                     tar |-> IF pubKeyAsc.err THEN withGpg
                                             ELSE addFile(withGpg, NamePublicAsc, pubKeyAsc.out)])))

\* most parts of a StandardRepository
MaxParts == 2

CompMain == <<"m", "a", "i", "n">>
ArchAmd64 == <<"a", "m", "d", "6", "4">>
ArchArm64 == <<"a", "r", "m", "6", "4">>

\* package hi 1 for all architectures, the same with two user-defined
\* fields, and its version 2
PkgPlain == BasePkg
PkgFields == SetAll(BasePkg, << <<X, A>>, <<W, A>> >>)
PkgNext == Set(BasePkg, FieldVersion, <<"2">>)

Part(comp, arch, pkgs) ==
    [ArchiveInfo |-> [EmptyArchiveInfo EXCEPT !.Components = comp, !.Architectures = arch],
     Packages |-> pkgs]

PartPool ==
    { Part(CompMain, arch, pkgs) :
        arch \in {ArchAmd64, ArchArm64},
        pkgs \in {<<>>, <<PkgPlain>>, <<PkgFields>>, <<PkgPlain, PkgNext>>} }
    \cup {Part(CompMain, <<>>, <<PkgPlain>>)}

StdPool ==
    { [ArchiveInfo |-> [EmptyArchiveInfo EXCEPT !.Codename = <<"s">>], GPGKey |-> key,
       Parts |-> parts] :
        key \in {<<>>, PrivateKeyRing}, parts \in SeqsUpTo(PartPool, MaxParts) }

\* the clock reading of the idx-th serialization when the clock ticks after
\* the tick-th
Clock(tick, idx) == IF idx <= tick THEN Now ELSE Now + 1

RECURSIVE PkgSerChoices(_, _, _)
PkgSerChoices(pkgs, tick, base) ==
    IF pkgs = <<>> THEN {<<>>}
    ELSE { << <<Clock(tick, base + 1), k, sc>> >> \o rest :
              k \in Orders(DOMAIN Head(pkgs).Metadata.ExtraFields),
              sc \in Orders(WrittenScripts(Head(pkgs))),
              rest \in PkgSerChoices(Tail(pkgs), tick, base + 1) }

RECURSIVE PartSerChoices(_, _, _)
PartSerChoices(parts, tick, base) ==
    IF parts = <<>> THEN {<<>>}
    ELSE { <<ps>> \o rest :
              ps \in PkgSerChoices(Head(parts).Packages, tick, base),
              rest \in PartSerChoices(Tail(parts), tick, base + Len(Head(parts).Packages)) }

RECURSIVE CountPackages(_)
CountPackages(parts) ==
    IF parts = <<>> THEN 0 ELSE Len(Head(parts).Packages) + CountPackages(Tail(parts))

InitStd ==
    /\ std \in StdPool
    /\ tarball = <<>>
    /\ IdleRepo /\ IdlePkg /\ IdleBump /\ IdleBuild /\ IdleApt /\ IdleTmpl /\ IdleHub

\* r.WriteTo(w) on the StandardRepository
DoStandardWriteTo ==
    /\ \E tick \in 0..CountPackages(std.Parts) :
           \E sers \in PartSerChoices(std.Parts, tick, 0) :
               \E w \in {StandardWriteTo(std, sers, Clock(tick, CountPackages(std.Parts) + 1))} :
                   tarball' = w
    /\ UNCHANGED std
    /\ UNCHANGED <<repoVars, pkgVars, bumpVars, buildVars, aptVars, tmplVars, hubVars>>

NextStd == DoStandardWriteTo

SpecStd == InitStd /\ [][NextStd]_vars

\* the values of the lines of a stanza that carry the field key
FieldValues(text, key) ==
    With(FieldLines(text, key), LAMBDA vs : [i \in DOMAIN vs |-> Tail(vs[i])])

\* the Filename, Size and SHA256 of every stanza of a Packages index
StanzaFiles(content) ==
    With(SelectSeq(SplitOn(content, <<"\n", "\n">>), LAMBDA st : TrimSpace(st) # <<>>),
         LAMBDA stanzas :
             [i \in DOMAIN stanzas |->
                 [Filename |-> FieldValues(stanzas[i], FieldFilename),
                  Size |-> FieldValues(stanzas[i], FieldSize),
                  SHA256 |-> FieldValues(stanzas[i], FieldSHA256)]])

\* the stanza sf names a .deb with its length and its sha256
StanzaMatches(sf, members) ==
    /\ sf.Size = <<Itoa(DebSize(members))>>
    /\ sf.SHA256 = <<Sha256Hex(DebBytes(members))>>

\* C27: every stanza of every Packages index that a serialization emits, in
\* the flat directory and in every part of the hierarchical tarball, names a
\* file of the output, and gives that file's length and sha256.
C27_IndexMatchesFiles ==
    /\ (dir.exists /\ NamePackages \in DOMAIN dir.files) =>
           \E sfs \in {StanzaFiles(dir.files[NamePackages])} :
               \A i \in DOMAIN sfs :
                   /\ Len(sfs[i].Filename) = 1
                   /\ sfs[i].Filename[1] \in DOMAIN dir.files
                   /\ StanzaMatches(sfs[i], dir.files[sfs[i].Filename[1]])
    /\ (tarball # <<>> /\ ~tarball.err) =>
           \A e \in DOMAIN tarball.tar :
               HasSuffix(tarball.tar[e].Name, Slash \o NamePackages) =>
                   \E sfs \in {StanzaFiles(tarball.tar[e].Body)} :
                       \A i \in DOMAIN sfs :
                           /\ Len(sfs[i].Filename) = 1
                           /\ \E f \in DOMAIN tarball.tar :
                                  /\ tarball.tar[f].Name = sfs[i].Filename[1]
                                  /\ StanzaMatches(sfs[i], tarball.tar[f].Body)

-----------------------------------------------------------------------------
(* Loading a repository: NewRepository and NewRepositoryFromDir *)

\* the loop of NewRepository over the entries of the tarball, in the order
\* they are stored
RECURSIVE readTarEntries(_, _, _)
readTarEntries(entries, repo, externalPkgs) ==
    IF entries = <<>> THEN [repo |-> repo, externalPkgs |-> externalPkgs]
    ELSE LET header == Head(entries)
         IN  IF header.Name = NameRelease \/ header.Name = <<".", "/">> \o NameRelease
             THEN With([repo EXCEPT !.ArchiveInfo = parseReleaseFile(header.Body, @)],
                       LAMBDA read : readTarEntries(Tail(entries), read, externalPkgs))
             ELSE IF HasSuffix(header.Name, SuffixDeb)
             THEN With([repo EXCEPT !.Packages =
                           @ \o <<NewPackage(header.Body, <<Len(@) + 1, "tar">>)>>],
                       LAMBDA read : readTarEntries(Tail(entries), read, externalPkgs))
             ELSE IF header.Name = NamePackages \/ header.Name = <<".", "/">> \o NamePackages
             THEN With(parsePackagesIndex(header.Body),
                       LAMBDA pkgs : readTarEntries(Tail(entries), repo, pkgs))
             ELSE readTarEntries(Tail(entries), repo, externalPkgs)

\* NewRepository of a well-formed tar.gz stream
NewRepository(entries) ==
    With(readTarEntries(entries,
                        [ArchiveInfo |-> EmptyArchiveInfo, Packages |-> <<>>,
                         GPGKey |-> <<>>], <<>>),
         LAMBDA read :
    With({mergeKey(read.repo.Packages[i]) : i \in 1..Len(read.repo.Packages)},
         LAMBDA existing :
             [read.repo EXCEPT !.Packages =
                 @ \o SelectSeq(read.externalPkgs, LAMBDA p : mergeKey(p) \notin existing)]))

\* most stanzas of a Packages index that is loaded
MaxStanzas == 2

\* the .deb files of a repository to load: hi 1, hi 1 built again with
\* another description, and hi 2
LoadDeb1 == WriteTo(Set(BasePkg, FieldDescription, A), Now, <<>>, <<>>)
LoadDeb1b == WriteTo(Set(BasePkg, FieldDescription, B), Now, <<>>, <<>>)
LoadDeb2 == WriteTo(Set(BasePkg, FieldVersion, <<"2">>), Now, <<>>, <<>>)
NameADeb == A \o SuffixDeb
NameBDeb == B \o SuffixDeb

\* the Packages indices: every list of at most MaxStanzas stanzas of the
\* three .deb files
LoadIndices ==
    { generatePackagesFile([i \in DOMAIN ms |-> IndexEntry(ms[i])]) :
        ms \in SeqsUpTo({LoadDeb1, LoadDeb1b, LoadDeb2}, MaxStanzas) }

\* the directories: a.deb, b.deb and Packages, each present or not
LoadDirs ==
    { [n \in names |-> CASE n = NameADeb -> a [] n = NameBDeb -> b [] OTHER -> idx] :
        names \in SUBSET {NameADeb, NameBDeb, NamePackages},
        a \in {LoadDeb1, LoadDeb2}, b \in {LoadDeb1, LoadDeb1b}, idx \in LoadIndices }

InitLoad ==
    /\ \E files \in LoadDirs, order \in {"up", "down"} :
           /\ dir = [exists |-> TRUE, files |-> files]
           /\ tarball = [err |-> FALSE,
                         tar |-> With(SortStrings(DOMAIN files), LAMBDA ns :
                                     [i \in DOMAIN ns |->
                                         With(IF order = "up" THEN ns[i]
                                              ELSE ns[Len(ns) + 1 - i],
                                              LAMBDA n : [Name |-> n, Body |-> files[n]])])]
    /\ manifest = <<>> /\ run = NoRun /\ std = <<>>
    /\ Packages = <<>> /\ ret = NoRet
    /\ IdlePkg /\ IdleBump /\ IdleApt /\ IdleTmpl /\ IdleHub

\* NewRepositoryFromDir(path)
DoNewRepositoryFromDir ==
    /\ Packages' = NewRepositoryFromDir(dir.files).Packages
    /\ ret' = [op |-> "NewRepositoryFromDir", arg |-> Nil, existing |-> Nil, err |-> FALSE]
    /\ UNCHANGED <<dir, manifest, run, std, tarball>>
    /\ UNCHANGED <<pkgVars, bumpVars, aptVars, tmplVars, hubVars>>

\* NewRepository(r) on the tarball
DoNewRepository ==
    /\ Packages' = NewRepository(tarball.tar).Packages
    /\ ret' = [op |-> "NewRepository", arg |-> Nil, existing |-> Nil, err |-> FALSE]
    /\ UNCHANGED <<dir, manifest, run, std, tarball>>
    /\ UNCHANGED <<pkgVars, bumpVars, aptVars, tmplVars, hubVars>>

NextLoad == DoNewRepositoryFromDir \/ DoNewRepository

SpecLoad == InitLoad /\ [][NextLoad]_vars

\* C28: in a repository that NewRepository or NewRepositoryFromDir has
\* loaded, no two packages have the same name, version and architecture,
\* whether they were read from .deb files, from stanzas of the Packages index
\* or from both.
C28_LoadedTriplesUnique ==
    ret.op \in {"NewRepository", "NewRepositoryFromDir"} =>
        \A i, j \in DOMAIN Packages :
            i # j => mergeKey(Packages[i]) # mergeKey(Packages[j])

-----------------------------------------------------------------------------
(* Claims about merging indices *)

\* C29: when Append returns the duplicate package error, the receiving index
\* holds exactly the packages it held before the call: none of the packages
\* of the other index has been stored.
C29_AppendAllOrNothing ==
    [][(outcome'.op = "Append" /\ outcome'.err = "duplicate")
          => master'.packages = master.packages]_vars

-----------------------------------------------------------------------------
(* Compile with a listener *)

\* the events a Listener receives
Event(type, path) == [type |-> type, path |-> path]
LoadSuccess == Event("EventRepositoryLoadSuccess", 0)
ApplySuccess(i) == Event("EventPackageApplySuccess", i)
SaveSuccess == Event("EventRepositorySaveSuccess", 0)

\* the file operations of a save: one for each file of the directory
FileOperations(files) ==
    With(SortStrings(DOMAIN files),
         LAMBDA names : [k \in DOMAIN names |-> [type |-> "EventFileOperation", path |-> names[k]]])

\* a loop over the package definitions that goes on after a definition that
\* Apply fails on
RECURSIVE applySkipping(_, _, _, _)
applySkipping(defs, repo, i, events) ==
    IF defs = <<>> THEN [repo |-> repo, err |-> FALSE, events |-> events]
    ELSE With(Apply(Head(defs), repo.Packages, <<i, "apply">>), LAMBDA a :
             IF a.err THEN applySkipping(Tail(defs), repo, i + 1, events)
             ELSE With([repo EXCEPT !.Packages = a.Packages],
                       LAMBDA applied : applySkipping(Tail(defs), applied, i + 1,
                                                      events \o <<ApplySuccess(i)>>)))

\* the loop of Compile over the package definitions, with the event that
\* follows every Apply that succeeded
RECURSIVE applyListening(_, _, _, _)
applyListening(defs, repo, i, events) ==
    IF defs = <<>> THEN [repo |-> repo, err |-> FALSE, events |-> events]
    ELSE With(Apply(Head(defs), repo.Packages, <<i, "apply">>), LAMBDA a :
             IF a.err THEN [repo |-> repo, err |-> TRUE, events |-> events]
             ELSE With([repo EXCEPT !.Packages = a.Packages],
                       LAMBDA applied : applyListening(Tail(defs), applied, i + 1,
                                                       events \o <<ApplySuccess(i)>>)))

\* the end of Compile, after the loop over the package definitions: return
\* its error, or save the repository and emit the file operations and the
\* save event
saveListening(c, d, gpgKey, now, orders) ==
    IF c.err THEN [dir |-> d, err |-> TRUE, events |-> c.events]
    ELSE With(WriteToDir([c.repo EXCEPT !.GPGKey = gpgKey], d.files, now, orders),
              LAMBDA w :
                  [dir |-> [exists |-> TRUE, files |-> w.files], err |-> w.err,
                   events |-> IF w.err THEN c.events
                              ELSE c.events \o FileOperations(w.files) \o <<SaveSuccess>>])

\* a Compile that saves the packages it could apply
CompileSkipping(defs, d, gpgKey, now, orders, fault) ==
    IF fault = "LoadRepository" THEN [dir |-> d, err |-> TRUE, events |-> <<>>]
    ELSE IF fault = "LoadPackages" THEN [dir |-> d, err |-> TRUE, events |-> <<LoadSuccess>>]
    ELSE saveListening(applySkipping(defs, LoadRepository(d), 1, <<LoadSuccess>>),
                       d, gpgKey, now, orders)

\* manifest Repository.Compile with a listener: the directory afterwards,
\* whether an error is returned and the events the listener got. fault tells
\* whether LoadRepository or LoadPackages fails in this call.
CompileListening(defs, d, gpgKey, now, orders, fault) ==
    IF fault = "LoadRepository" THEN [dir |-> d, err |-> TRUE, events |-> <<>>]
    ELSE IF fault = "LoadPackages" THEN [dir |-> d, err |-> TRUE, events |-> <<LoadSuccess>>]
    ELSE saveListening(applyListening(defs, LoadRepository(d), 1, <<LoadSuccess>>),
                       d, gpgKey, now, orders)

\* what may fail before the first Apply: reading the output directory, or
\* reading a package definition
Faults == {"none", "LoadRepository", "LoadPackages"}

\* a.Compile(gpgKey, l) with a listener l
DoCompileListening ==
    /\ run.n < MaxRuns
    /\ \E fault \in Faults :
       \E orders \in OrderChoices(Compiled(manifest, dir).repo.Packages) :
           \E c \in {CompileListening(manifest, dir, run.gpgKey, Now + run.n, orders, fault)} :
               /\ dir' = c.dir
               /\ run' = [n |-> run.n + 1, err |-> c.err, gpgKey |-> run.gpgKey,
                          fault |-> fault, events |-> c.events]
    /\ UNCHANGED manifest
    /\ UNCHANGED <<repoVars, pkgVars, bumpVars, aptVars, tmplVars, hubVars, stdVars>>

\* a manifest and an empty output directory; the repository is left unsigned,
\* or signing fails for want of a key
InitCompile ==
    /\ manifest \in Manifests
    /\ dir = NoDir
    /\ run \in {[NoRun EXCEPT !.gpgKey = k] : k \in {<<>>, NoKeyRing}}
    /\ IdleRepo /\ IdlePkg /\ IdleBump /\ IdleApt /\ IdleTmpl /\ IdleHub /\ IdleStd

NextCompile == DoCompileListening

SpecCompile == InitCompile /\ [][NextCompile]_vars

\* C30: Compile writes the repository only when the repository was loaded
\* and Apply succeeded for every package of the manifest. When loading or an
\* Apply fails it returns the error, leaves the directory as it was and emits
\* no file operation and no save event. When it succeeds the listener got the
\* load event, then one apply event for each package in manifest order, then
\* the file operations, then the save event, and nothing else.
C30_SaveAfterAllApplied ==
    [][run'.n = run.n + 1 =>
          \E ev \in {run'.events}, n \in {Len(manifest)} :
              /\ (run'.fault # "none" \/ Compiled(manifest, dir).err) =>
                     /\ run'.err
                     /\ dir' = dir
                     /\ \A k \in DOMAIN ev :
                            ev[k].type \notin {"EventFileOperation", "EventRepositorySaveSuccess"}
              /\ dir' # dir => (run'.fault = "none" /\ ~Compiled(manifest, dir).err)
              /\ ~run'.err =>
                     /\ Len(ev) >= n + 2
                     /\ ev[1] = LoadSuccess
                     /\ \A k \in 1..n : ev[k + 1] = ApplySuccess(k)
                     /\ \A k \in (n + 2)..(Len(ev) - 1) : ev[k].type = "EventFileOperation"
                     /\ ev[Len(ev)] = SaveSuccess
      ]_vars

\* the second Compile of a manifest of two packages succeeded and saved
C30_Witness ==
    /\ run.n = 2 /\ ~run.err
    /\ Len(manifest) = 2
    /\ Len(run.events) > 4
    /\ run.events[Len(run.events)] = SaveSuccess

====
